---- MODULE Spec2Model ----
(***************************************************************************)
(* vkviyu/nexus: the websocket endpoint/connection registry and its        *)
(* message dispatch (transport/server/websocket).                          *)
(*                                                                         *)
(* A Manager maps endpoint paths to Endpoints; an Endpoint owns a          *)
(* connection table (ConnMap) and an inbound channel (MsgChan).  Every     *)
(* accepted request runs Endpoint.ServeHTTP as its own goroutine; sends    *)
(* run in the goroutines of their callers.  No table is guarded by a lock, *)
(* so every step that touches a table interleaves freely with the others.  *)
(* The module also covers the counter of the badgerdb wrapper, the nested  *)
(* buckets of the bboltdb wrapper and the control server of the command    *)
(* line (transport/client), each with a specification of its own.          *)
(***************************************************************************)
EXTENDS Integers, Sequences, FiniteSets, TLC

(* ------------------------------ bounds --------------------------------- *)

\* frames a peer sends on one connection before it closes or fails
MaxFrames == 2

\* entries of a MultiMessage
MaxBatch == 2

\* ids listed in an EndpointMessage
MaxIds == 2

\* calls of Manager.AddEndpoint
MaxAdds == 2

(* ------------------------- program constants --------------------------- *)

TextMessage == 1
BinaryMessage == 2
DefaultMessageType == TextMessage

(* ------------------------------ universe ------------------------------- *)

\* a nil pointer to an Endpoint, or an identity not yet assigned
Nil == "nil"

\* a nil *WebSocketConn (connections are numbered from 1)
NoConn == 0

\* Endpoint objects built by NewEndpoint, and the path each was built with
Endpoints == {"A", "B", "C"}

EndpointPathOf(e) ==
    CASE e = "A" -> "/chat"
      [] e = "B" -> "/news"
      [] e = "C" -> "/chat"

\* identities an AuthFunc hands out
ConnIds == {"u1", "u2"}

\* handshake requests; the connection a request is upgraded to is named
\* after the request
Reqs == {1, 2}

\* frames a peer may send: <<kind, payload>>
InFrames == {<<TextMessage, "a">>, <<BinaryMessage, "b">>}

VARIABLES
    EndpointMap,    \* Manager.EndpointMap: path -> Endpoint (partial function)
    ConnMap,        \* Endpoint.ConnMap, per endpoint: id -> conn (partial function)
    MsgChan,        \* Endpoint.MsgChan, per endpoint: the messages sent on it so far
    closed,         \* connections on which Close() has been called
    req,            \* per request: the position of its ServeHTTP call and its locals
    snd,            \* per sender: the position of its send call and its locals
    added,          \* history: the endpoints passed to Manager.AddEndpoint, in call order
    store,          \* badgerdb: the committed keys and their values
    txn,            \* badgerdb: per caller, its WithCounterTransaction call
    issued,         \* history: the ids of the committed counter transactions, in commit order
    buckets,        \* bboltdb: the committed tree of buckets and plain keys
    btx,            \* bboltdb: per caller, its Nested*Transaction call
    env,            \* nexusCmdServer.env
    programStopContext, \* nexusCmdServer.programStopContext: the number of the context
    cancelled,      \* the contexts whose cancel() has been called
    programs,       \* the instances of the business program started so far
    handlers,       \* per control request: the position of its handler and its locals
    listening       \* the control server accepts requests

\* the key-value stores, which the registry never touches
dbvars == <<store, txn, issued, buckets, btx>>

\* the control server of the command line, which shares nothing with the
\* registry or the stores
ctlvars == <<env, programStopContext, cancelled, programs, handlers, listening>>

vars == <<EndpointMap, ConnMap, MsgChan, closed, req, snd, added, dbvars, ctlvars>>

(* ------------------------------ helpers -------------------------------- *)

\* m[k] = v on a Go map
MapSet(m, k, v) == [x \in (DOMAIN m) \cup {k} |-> IF x = k THEN v ELSE m[x]]

\* delete(m, k) on a Go map
MapDelete(m, k) == [x \in (DOMAIN m) \ {k} |-> m[x]]

EmptyMap == <<>>

\* the sequences over S of length n at most
SeqsUpTo(S, n) == UNION {[1..k -> S] : k \in 0..n}

\* Manager.GetEndpoint
GetEndpoint(endpointPath) ==
    IF endpointPath \in DOMAIN EndpointMap THEN EndpointMap[endpointPath] ELSE Nil

\* mutant: the identity is looked up in the tables of all endpoints
GetConn_AnyEndpoint(e, connId) ==
    IF connId \in DOMAIN ConnMap[e] THEN ConnMap[e][connId]
    ELSE IF \E e2 \in Endpoints : connId \in DOMAIN ConnMap[e2]
         THEN LET e2 == CHOOSE e2 \in Endpoints : connId \in DOMAIN ConnMap[e2]
              IN  ConnMap[e2][connId]
         ELSE NoConn

\* Endpoint.GetConn
GetConn(e, connId) ==
    IF connId \in DOMAIN ConnMap[e] THEN ConnMap[e][connId] ELSE NoConn

\* Manager.GetConn
ManagerGetConn(endpointPath, connId) ==
    LET endpoint == GetEndpoint(endpointPath)
    IN  IF endpoint # Nil THEN GetConn(endpoint, connId) ELSE NoConn

(* --------------------------- Endpoint.ServeHTTP ------------------------ *)

\* A request's locals; peerClosed tells that the peer of its connection
\* has closed the connection.
IdleReq ==
    [pc |-> "idle", ep |-> Nil, id |-> Nil, frame |-> <<>>, reads |-> <<>>,
     panicking |-> FALSE, authFail |-> 0, upgrade |-> 0, upgradeFail |-> 0,
     peerClosed |-> FALSE]

\* A request reaches endpoint e and AuthFunc answers (authResult, connId);
\* a rejection calls AuthFailFunc and returns.  Requests are numbered in
\* the order in which they arrive.
ServeHTTP_Auth(r, e, authResult, connId) ==
    /\ req[r].pc = "idle"
    /\ \A r2 \in Reqs : r2 < r => req[r2].pc # "idle"
    /\ req' = [req EXCEPT ![r] =
                 IF authResult
                 THEN [@ EXCEPT !.pc = "upgrade", !.ep = e, !.id = connId]
                 ELSE [@ EXCEPT !.pc = "authFailed", !.ep = e, !.id = connId,
                                !.authFail = @ + 1]]
    /\ UNCHANGED <<EndpointMap, ConnMap, MsgChan, closed, snd, added, dbvars, ctlvars>>

\* mutant: a failed upgrade still leaves an entry in the table
ServeHTTP_Upgrade_RegistersOnFailure(r, ok) ==
    /\ req[r].pc = "upgrade"
    /\ req' = [req EXCEPT ![r] =
                 IF ok
                 THEN [@ EXCEPT !.pc = "register", !.upgrade = @ + 1]
                 ELSE [@ EXCEPT !.pc = "upgradeFailed", !.upgrade = @ + 1,
                                !.upgradeFail = @ + 1]]
    /\ ConnMap' = IF ok THEN ConnMap
                  ELSE [ConnMap EXCEPT ![req[r].ep] = MapSet(@, req[r].id, r)]
    /\ UNCHANGED <<EndpointMap, MsgChan, closed, snd, added, dbvars, ctlvars>>

\* UpgradeFunc yields a connection or fails; a failure calls UpgradeFailFunc
\* and returns.
ServeHTTP_Upgrade(r, ok) ==
    /\ req[r].pc = "upgrade"
    /\ req' = [req EXCEPT ![r] =
                 IF ok
                 THEN [@ EXCEPT !.pc = "register", !.upgrade = @ + 1]
                 ELSE [@ EXCEPT !.pc = "upgradeFailed", !.upgrade = @ + 1,
                                !.upgradeFail = @ + 1]]
    /\ UNCHANGED <<EndpointMap, ConnMap, MsgChan, closed, snd, added, dbvars, ctlvars>>

\* mutant: an identity that is already in the table keeps its connection
ServeHTTP_Register_KeepsFirst(r) ==
    /\ req[r].pc = "register"
    /\ ConnMap' = [ConnMap EXCEPT ![req[r].ep] =
                     IF req[r].id \in DOMAIN @ THEN @ ELSE MapSet(@, req[r].id, r)]
    /\ req' = [req EXCEPT ![r].pc = "read"]
    /\ UNCHANGED <<EndpointMap, MsgChan, closed, snd, added, dbvars, ctlvars>>

\* e.ConnMap[connId] = conn, and the deferred cleanup is armed
ServeHTTP_Register(r) ==
    /\ req[r].pc = "register"
    /\ ConnMap' = [ConnMap EXCEPT ![req[r].ep] = MapSet(@, req[r].id, r)]
    /\ req' = [req EXCEPT ![r].pc = "read"]
    /\ UNCHANGED <<EndpointMap, MsgChan, closed, snd, added, dbvars, ctlvars>>

\* the peer of a serving connection closes it
PeerClose(r) ==
    /\ req[r].pc \in {"read", "push"}
    /\ ~req[r].peerClosed
    /\ req' = [req EXCEPT ![r].peerClosed = TRUE]
    /\ UNCHANGED <<EndpointMap, ConnMap, MsgChan, closed, snd, added, dbvars, ctlvars>>

\* conn.ReadMessage() returns a frame
ServeHTTP_ReadFrame(r, f) ==
    /\ req[r].pc = "read"
    /\ ~req[r].peerClosed
    /\ Len(req[r].reads) < MaxFrames
    /\ req' = [req EXCEPT ![r] =
                 [@ EXCEPT !.pc = "push", !.frame = f, !.reads = Append(@, f)]]
    /\ UNCHANGED <<EndpointMap, ConnMap, MsgChan, closed, snd, added, dbvars, ctlvars>>

\* conn.ReadMessage() returns an error (the peer closed, the read failed,
\* or the connection was closed under the loop): the loop returns
ServeHTTP_ReadError(r) ==
    /\ req[r].pc = "read"
    /\ req' = [req EXCEPT ![r].pc = "delete"]
    /\ UNCHANGED <<EndpointMap, ConnMap, MsgChan, closed, snd, added, dbvars, ctlvars>>

\* mutant: the cleanup is plain code after the loop instead of a deferred
\* call, so a panic skips it
ServeHTTP_ReadPanic_NoDefer(r) ==
    /\ req[r].pc = "read"
    /\ req' = [req EXCEPT ![r] = [@ EXCEPT !.pc = "panicked", !.panicking = TRUE]]
    /\ UNCHANGED <<EndpointMap, ConnMap, MsgChan, closed, snd, added, dbvars, ctlvars>>

\* conn.ReadMessage() panics (a ping/pong/close handler installed by the
\* UpgradeFunc runs inside the read): the panic unwinds through the loop
ServeHTTP_ReadPanic(r) ==
    /\ req[r].pc = "read"
    /\ req' = [req EXCEPT ![r] = [@ EXCEPT !.pc = "delete", !.panicking = TRUE]]
    /\ UNCHANGED <<EndpointMap, ConnMap, MsgChan, closed, snd, added, dbvars, ctlvars>>

\* mutant: the kind of the frame is replaced by the default kind
InboundMessage_DefaultKind(r) ==
    [MessageType  |-> DefaultMessageType,
     Message      |-> req[r].frame[2],
     EndpointPath |-> EndpointPathOf(req[r].ep),
     ConnId       |-> req[r].id,
     from         |-> r]

\* the Message the loop builds from a frame; from is the connection that
\* read it (history only: the Go struct has no such field)
InboundMessage(r) ==
    [MessageType  |-> req[r].frame[1],
     Message      |-> req[r].frame[2],
     EndpointPath |-> EndpointPathOf(req[r].ep),
     ConnId       |-> req[r].id,
     from         |-> r]

\* mutant: the message goes to the front of the channel
ServeHTTP_Push_Front(r) ==
    /\ req[r].pc = "push"
    /\ MsgChan' = [MsgChan EXCEPT ![req[r].ep] = <<InboundMessage(r)>> \o @]
    /\ req' = [req EXCEPT ![r] = [@ EXCEPT !.pc = "read", !.frame = <<>>]]
    /\ UNCHANGED <<EndpointMap, ConnMap, closed, snd, added, dbvars, ctlvars>>

\* e.MsgChan <- &Message{...}: the channel is unbuffered (make(MsgChan),
\* line 157), so the send is over when a receiver has taken the message;
\* MsgChan records the messages taken
ServeHTTP_Push(r) ==
    /\ req[r].pc = "push"
    /\ MsgChan' = [MsgChan EXCEPT ![req[r].ep] = Append(@, InboundMessage(r))]
    /\ req' = [req EXCEPT ![r] = [@ EXCEPT !.pc = "read", !.frame = <<>>]]
    /\ UNCHANGED <<EndpointMap, ConnMap, closed, snd, added, dbvars, ctlvars>>

\* mutant: the deferred cleanup closes the connection where it should
\* remove the entry
ServeHTTP_DeferDelete_ClosesFirst(r) ==
    /\ req[r].pc = "delete"
    /\ closed' = closed \cup {r}
    /\ req' = [req EXCEPT ![r].pc = "close"]
    /\ UNCHANGED <<EndpointMap, ConnMap, MsgChan, snd, added, dbvars, ctlvars>>

\* deferred: delete(e.ConnMap, connId)
ServeHTTP_DeferDelete(r) ==
    /\ req[r].pc = "delete"
    /\ ConnMap' = [ConnMap EXCEPT ![req[r].ep] = MapDelete(@, req[r].id)]
    /\ req' = [req EXCEPT ![r].pc = "close"]
    /\ UNCHANGED <<EndpointMap, MsgChan, closed, snd, added, dbvars, ctlvars>>

\* deferred: conn.Close(); then ServeHTTP returns, or the panic goes on
\* to the caller
ServeHTTP_DeferClose(r) ==
    /\ req[r].pc = "close"
    /\ closed' = closed \cup {r}
    /\ req' = [req EXCEPT ![r].pc = IF req[r].panicking THEN "panicked" ELSE "returned"]
    /\ UNCHANGED <<EndpointMap, ConnMap, MsgChan, snd, added, dbvars, ctlvars>>

(* -------------------------------- errors ------------------------------- *)

NoError == [type |-> "nil"]

ConnNotFoundError(endpointPath, connId) ==
    [type |-> "ConnNotFoundError", EndpointPath |-> endpointPath, ConnId |-> connId]

EndpointNotFoundError(endpointPath) ==
    [type |-> "EndpointNotFoundError", EndpointPath |-> endpointPath]

MultiMessageError(errs) == [type |-> "MultiMessageError", Errors |-> errs]

EndpointMessageError(endpointPath, errs) ==
    [type |-> "EndpointMessageError", EndpointPath |-> endpointPath, Errors |-> errs]

BroadcastMessageError(endpointPath, errs) ==
    [type |-> "BroadcastMessageError", EndpointPath |-> endpointPath, Errors |-> errs]

\* the error conn.WriteMessage returns: the transport's own, carried as it is
WriteError == [type |-> "WriteError"]

(* ------------------------------- messages ------------------------------ *)

\* a nil entry of MultiMessage.Messages
NilMessage == [nil |-> TRUE]

\* mutant: the kind is left as the caller set it
ensureValidMessageType_Unchanged(messageType) == messageType

\* ensureValidMessageType, ensureValidBroadcastMessage and
\* ensureValidEndpointMessage: the MessageType the message has afterwards
ensureValidMessageType(messageType) ==
    IF messageType = 0 THEN DefaultMessageType ELSE messageType

(* ------------------------------- senders ------------------------------- *)

\* goroutines that call Manager.SendMessage or Endpoint.SendMessage
Senders == {"s1"}

\* history: how many times each ServeHTTP call has written a connection
\* table so far (its insert, then its deferred delete)
TableWrites ==
    [r \in Reqs |->
        CASE req[r].pc \in {"read", "push", "delete"} -> 1
          [] req[r].pc \in {"close", "returned", "panicked"} -> 2
          [] OTHER -> 0]

\* A sender's locals.  arg is the message as the caller passed it and kind
\* its MessageType after normalisation; batch/i walk MultiMessage.Messages
\* or EndpointMessage.ConnIds; keys, ep, todo and seen are the positions of
\* the range loops over EndpointMap and over a ConnMap; conn is the
\* connection a lookup or a range step produced; errs is the errs slice.
\* log, epoch and snap are history: one entry per target the send dealt
\* with; for the sends that range over a table, the table writes that had
\* happened when the send was called; and for an EndpointMessage without
\* ids, the tables as they were at that moment.  adds is history too: the
\* number of AddEndpoint calls that had been made when the call began.
IdleSnd ==
    [pc |-> "idle", mode |-> "none", arg |-> NilMessage, kind |-> 0,
     i |-> 0, keys |-> {}, ep |-> Nil, todo |-> {}, seen |-> {}, id |-> Nil,
     conn |-> NoConn, errs |-> <<>>, result |-> NoError,
     log |-> <<>>, epoch |-> <<>>, snap |-> <<>>, adds |-> 0]

\* the locals of a call that begins now
NewCall(mode, arg) ==
    [IdleSnd EXCEPT !.mode = mode, !.arg = arg, !.adds = Len(added)]

LogEntry(i, e, id, conn, kind, out) ==
    [i |-> i, ep |-> e, id |-> id, conn |-> conn, kind |-> kind, out |-> out]

\* the send returns err
Finish(c, err) == [c EXCEPT !.pc = "done", !.result = err]

\* Message.Send up to the write: normalise, look the connection up, and
\* return ConnNotFoundError when the lookup yields nil.  c is the caller's
\* record, m the message, i its place in the batch (0 outside a batch).
\* Yields the record with pc "write" when a connection was found, and
\* otherwise with the error appended to errs and pc = "missed".
MessageSendLookup(c, m, i) ==
    LET kind == ensureValidMessageType(m.MessageType)
        conn == ManagerGetConn(m.EndpointPath, m.ConnId)
        e    == GetEndpoint(m.EndpointPath)
    IN  IF conn = NoConn
        THEN [c EXCEPT !.pc = "missed", !.kind = kind, !.i = i,
                       !.errs = Append(@, ConnNotFoundError(m.EndpointPath, m.ConnId)),
                       !.log = Append(@, LogEntry(i, e, m.ConnId, NoConn, kind,
                                                  "ConnNotFound"))]
        ELSE [c EXCEPT !.pc = "write", !.kind = kind, !.i = i, !.ep = e,
                       !.id = m.ConnId, !.conn = conn]

\* (m *Message) Send: lines 131-138
Message_Send(s, m) ==
    /\ snd[s].pc = "idle"
    /\ LET c == MessageSendLookup(NewCall("Message", m), m, 0)
       IN  snd' = [snd EXCEPT ![s] =
                     IF c.pc = "missed" THEN Finish(c, c.errs[1]) ELSE c]
    /\ UNCHANGED <<EndpointMap, ConnMap, MsgChan, closed, req, added, dbvars, ctlvars>>

\* mutant: the batch stops at the first entry that failed
MultiAdvance_FailFast(c, i) ==
    LET rest == {k \in i..Len(c.arg) : c.arg[k] # NilMessage}
    IN  IF rest = {} \/ Len(c.errs) > 0
        THEN Finish(c, IF Len(c.errs) > 0 THEN MultiMessageError(c.errs) ELSE NoError)
        ELSE [c EXCEPT !.pc = "mm_send",
                       !.i = CHOOSE k \in rest : \A k2 \in rest : k <= k2]

\* MultiMessage.Send from entry i on: nil entries are skipped, and when
\* the entries are used up the send returns MultiMessageError or nil
MultiAdvance(c, i) ==
    LET rest == {k \in i..Len(c.arg) : c.arg[k] # NilMessage}
    IN  IF rest = {}
        THEN Finish(c, IF Len(c.errs) > 0 THEN MultiMessageError(c.errs) ELSE NoError)
        ELSE [c EXCEPT !.pc = "mm_send",
                       !.i = CHOOSE k \in rest : \A k2 \in rest : k <= k2]

\* (mm *MultiMessage) Send: lines 146-153, up to the first Send of an entry
MultiMessage_Send(s, messages) ==
    /\ snd[s].pc = "idle"
    /\ snd' = [snd EXCEPT ![s] =
                 MultiAdvance(NewCall("MultiMessage", messages), 1)]
    /\ UNCHANGED <<EndpointMap, ConnMap, MsgChan, closed, req, added, dbvars, ctlvars>>

\* singleMsg.Send(server) for the entry the loop is at, up to its write
MultiMessage_Send_Entry(s) ==
    /\ snd[s].pc = "mm_send"
    /\ LET c == MessageSendLookup(snd[s], snd[s].arg[snd[s].i], snd[s].i)
       IN  snd' = [snd EXCEPT ![s] =
                     IF c.pc = "missed" THEN MultiAdvance(c, c.i + 1) ELSE c]
    /\ UNCHANGED <<EndpointMap, ConnMap, MsgChan, closed, req, added, dbvars, ctlvars>>

\* the range loop of writeMessageForConns starts on the table of e
RangeStart(c, e) ==
    [c EXCEPT !.pc = "range", !.ep = e, !.todo = DOMAIN ConnMap[e], !.seen = {}]

\* Endpoint.SendMessage with ConnIds, from id i on
EndpointAdvance(c, i) ==
    IF i > Len(c.arg.ConnIds)
    THEN Finish(c, IF Len(c.errs) > 0
                   THEN EndpointMessageError(EndpointPathOf(c.ep), c.errs)
                   ELSE NoError)
    ELSE [c EXCEPT !.pc = "em_get", !.i = i]

\* (e *Endpoint) SendMessage: lines 210-217
Endpoint_SendMessage(s, e, msg) ==
    /\ snd[s].pc = "idle"
    /\ LET c == [NewCall("EndpointMessage", msg) EXCEPT !.ep = e,
                                !.kind = ensureValidMessageType(msg.MessageType),
                                !.epoch = TableWrites,
                                !.snap = IF Len(msg.ConnIds) = 0 THEN ConnMap ELSE <<>>]
       IN  snd' = [snd EXCEPT ![s] =
                     IF Len(msg.ConnIds) = 0 THEN RangeStart(c, e)
                     ELSE EndpointAdvance(c, 1)]
    /\ UNCHANGED <<EndpointMap, ConnMap, MsgChan, closed, req, added, dbvars, ctlvars>>

\* (e *Endpoint) SendMessage: lines 218-225, the lookup of one listed id
Endpoint_SendMessage_GetConn(s) ==
    /\ snd[s].pc = "em_get"
    /\ LET c    == snd[s]
           id   == c.arg.ConnIds[c.i]
           conn == GetConn(c.ep, id)
       IN  snd' = [snd EXCEPT ![s] =
                     IF conn = NoConn
                     THEN EndpointAdvance(
                            [c EXCEPT !.errs = Append(@, ConnNotFoundError(
                                                           EndpointPathOf(c.ep), id)),
                                      !.log = Append(@, LogEntry(c.i, c.ep, id, NoConn,
                                                                 c.kind, "ConnNotFound"))],
                            c.i + 1)
                     ELSE [c EXCEPT !.pc = "write", !.id = id, !.conn = conn]]
    /\ UNCHANGED <<EndpointMap, ConnMap, MsgChan, closed, req, added, dbvars, ctlvars>>

\* BroadcastMessage.Send with an empty path, at the head of the range loop
\* over server.EndpointMap: the next endpoint, or the return
BroadcastAdvance(c) ==
    LET left == (c.keys \cap DOMAIN EndpointMap)
    IN  IF left = {}
        THEN Finish(c, IF Len(c.errs) > 0
                       THEN BroadcastMessageError(c.arg.EndpointPath, c.errs)
                       ELSE NoError)
        ELSE [c EXCEPT !.pc = "bm_next"]

\* mutant: a path that is not registered is treated as the empty path
BroadcastMessage_Send_UnknownIsAll(s, m) ==
    /\ snd[s].pc = "idle"
    /\ LET c == [NewCall("BroadcastMessage", m) EXCEPT
                                !.kind = ensureValidMessageType(m.MessageType),
                                !.epoch = TableWrites]
           endpoint == GetEndpoint(m.EndpointPath)
       IN  snd' = [snd EXCEPT ![s] =
                     IF m.EndpointPath = "" \/ endpoint = Nil
                     THEN BroadcastAdvance([c EXCEPT !.keys = DOMAIN EndpointMap])
                     ELSE RangeStart(c, endpoint)]
    /\ UNCHANGED <<EndpointMap, ConnMap, MsgChan, closed, req, added, dbvars, ctlvars>>

\* (m *BroadcastMessage) Send: lines 165-170 and 183-187
BroadcastMessage_Send(s, m) ==
    /\ snd[s].pc = "idle"
    /\ LET c == [NewCall("BroadcastMessage", m) EXCEPT
                                !.kind = ensureValidMessageType(m.MessageType),
                                !.epoch = TableWrites]
           endpoint == GetEndpoint(m.EndpointPath)
       IN  snd' = [snd EXCEPT ![s] =
                     IF m.EndpointPath = ""
                     THEN BroadcastAdvance([c EXCEPT !.keys = DOMAIN EndpointMap])
                     ELSE IF endpoint = Nil
                     THEN Finish(c, EndpointNotFoundError(m.EndpointPath))
                     ELSE RangeStart(c, endpoint)]
    /\ UNCHANGED <<EndpointMap, ConnMap, MsgChan, closed, req, added, dbvars, ctlvars>>

\* (m *BroadcastMessage) Send: line 170, the range loop over EndpointMap
\* yields an endpoint (in no particular order)
BroadcastMessage_Send_NextEndpoint(s) ==
    /\ snd[s].pc = "bm_next"
    /\ \E k \in snd[s].keys \cap DOMAIN EndpointMap :
          snd' = [snd EXCEPT ![s] =
                    RangeStart([snd[s] EXCEPT !.keys = @ \ {k}], EndpointMap[k])]
    /\ UNCHANGED <<EndpointMap, ConnMap, MsgChan, closed, req, added, dbvars, ctlvars>>

\* what follows one target of a send
AfterTarget(c) ==
    CASE c.mode = "Message" ->
           Finish(c, IF Len(c.errs) > 0 THEN c.errs[1] ELSE NoError)
      [] c.mode = "MultiMessage" -> MultiAdvance(c, c.i + 1)
      [] c.mode = "EndpointMessage" /\ Len(c.arg.ConnIds) > 0 ->
           EndpointAdvance(c, c.i + 1)
      [] OTHER -> [c EXCEPT !.pc = "range"]

\* mutant: an aggregate keeps only the first error
AfterRange_FirstErrorOnly(c) ==
    CASE c.mode = "EndpointMessage" ->
           Finish(c, IF Len(c.errs) > 0
                     THEN EndpointMessageError(EndpointPathOf(c.ep), <<c.errs[1]>>)
                     ELSE NoError)
      [] c.mode = "BroadcastMessage" /\ c.arg.EndpointPath = "" -> BroadcastAdvance(c)
      [] OTHER ->
           Finish(c, IF Len(c.errs) > 0
                     THEN BroadcastMessageError(c.arg.EndpointPath, <<c.errs[1]>>)
                     ELSE NoError)

\* what follows the range loop of writeMessageForConns
AfterRange(c) ==
    CASE c.mode = "EndpointMessage" ->
           Finish(c, IF Len(c.errs) > 0
                     THEN EndpointMessageError(EndpointPathOf(c.ep), c.errs)
                     ELSE NoError)
      [] c.mode = "BroadcastMessage" /\ c.arg.EndpointPath = "" -> BroadcastAdvance(c)
      [] OTHER ->
           Finish(c, IF Len(c.errs) > 0
                     THEN BroadcastMessageError(c.arg.EndpointPath, c.errs)
                     ELSE NoError)

\* writeMessageForConns, line 201: the range loop over a ConnMap yields an
\* entry it has not yielded (in no particular order).  An entry deleted
\* before the loop reaches it is not yielded; one added during the loop
\* is yielded or not.
writeMessageForConns_Next(s) ==
    /\ snd[s].pc = "range"
    /\ \E id \in (DOMAIN ConnMap[snd[s].ep]) \ snd[s].seen :
          snd' = [snd EXCEPT ![s] =
                    [@ EXCEPT !.pc = "write", !.id = id, !.seen = @ \cup {id},
                              !.conn = ConnMap[snd[s].ep][id]]]
    /\ UNCHANGED <<EndpointMap, ConnMap, MsgChan, closed, req, added, dbvars, ctlvars>>

\* mutant: the loop returns after its first write
writeMessageForConns_End_AfterFirst(s) ==
    /\ snd[s].pc = "range"
    /\ \/ (snd[s].todo \cap DOMAIN ConnMap[snd[s].ep]) \subseteq snd[s].seen
       \/ snd[s].seen # {}
    /\ snd' = [snd EXCEPT ![s] = AfterRange(@)]
    /\ UNCHANGED <<EndpointMap, ConnMap, MsgChan, closed, req, added, dbvars, ctlvars>>

\* writeMessageForConns, lines 201 and 206: the range loop ends
writeMessageForConns_End(s) ==
    /\ snd[s].pc = "range"
    /\ (snd[s].todo \cap DOMAIN ConnMap[snd[s].ep]) \subseteq snd[s].seen
    /\ snd' = [snd EXCEPT ![s] = AfterRange(@)]
    /\ UNCHANGED <<EndpointMap, ConnMap, MsgChan, closed, req, added, dbvars, ctlvars>>

\* mutant: a connection whose write failed is taken out of its table
WriteMessage_DropsFailed(s, ok) ==
    /\ snd[s].pc = "write"
    /\ ok => snd[s].conn \notin closed
    /\ LET c == snd[s]
           entry == LogEntry(c.i, c.ep, c.id, c.conn, c.kind,
                             IF ok THEN "ok" ELSE "WriteError")
       IN  /\ snd' = [snd EXCEPT ![s] =
                        AfterTarget([c EXCEPT !.log = Append(@, entry),
                                              !.errs = IF ok THEN @
                                                       ELSE Append(@, WriteError)])]
           /\ ConnMap' = IF ok THEN ConnMap
                         ELSE [ConnMap EXCEPT ![c.ep] = MapDelete(@, c.id)]
    /\ UNCHANGED <<EndpointMap, MsgChan, closed, req, added, dbvars, ctlvars>>

\* mutant: a write on a closed connection may succeed
WriteMessage_IgnoresClose(s, ok) ==
    /\ snd[s].pc = "write"
    /\ LET c == snd[s]
           entry == LogEntry(c.i, c.ep, c.id, c.conn, c.kind,
                             IF ok THEN "ok" ELSE "WriteError")
       IN  snd' = [snd EXCEPT ![s] =
                     AfterTarget([c EXCEPT !.log = Append(@, entry),
                                           !.errs = IF ok THEN @
                                                    ELSE Append(@, WriteError)])]
    /\ UNCHANGED <<EndpointMap, ConnMap, MsgChan, closed, req, added, dbvars, ctlvars>>

\* conn.WriteMessage(int(messageType), msg) and the error check after it;
\* a write on a closed connection fails, and any write may fail
WriteMessage(s, ok) ==
    /\ snd[s].pc = "write"
    /\ ok => snd[s].conn \notin closed
    /\ LET c == snd[s]
           entry == LogEntry(c.i, c.ep, c.id, c.conn, c.kind,
                             IF ok THEN "ok" ELSE "WriteError")
       IN  snd' = [snd EXCEPT ![s] =
                     AfterTarget([c EXCEPT !.log = Append(@, entry),
                                           !.errs = IF ok THEN @
                                                    ELSE Append(@, WriteError)])]
    /\ UNCHANGED <<EndpointMap, ConnMap, MsgChan, closed, req, added, dbvars, ctlvars>>

\* the caller takes the result
Return(s) ==
    /\ snd[s].pc = "done"
    /\ snd' = [snd EXCEPT ![s] = IdleSnd]
    /\ UNCHANGED <<EndpointMap, ConnMap, MsgChan, closed, req, added, dbvars, ctlvars>>

(* ------------------------ accesses of the tables ----------------------- *)

\* the serving goroutines whose next statement writes the table of e: the
\* insert of line 175 or the deferred delete of line 177.  Nothing orders
\* that statement with the statements of other goroutines.
TableWriters(e) ==
    {r \in Reqs : req[r].ep = e /\ req[r].pc \in {"register", "delete"}}

\* the senders whose next statement reads the table of e: the lookup of
\* Endpoint.GetConn or a step of the range loop of writeMessageForConns
TableReaders(e) ==
    {s \in Senders :
        \/ snd[s].pc \in {"range", "em_get"} /\ snd[s].ep = e
        \/ snd[s].pc = "mm_send"
              /\ GetEndpoint(snd[s].arg[snd[s].i].EndpointPath) = e}

\* A write of the table of e that coincides with another access of it is
\* a data race on a Go map.  The statement may go through (the steps
\* above), or the runtime's map code may see the other access and throw
\* "concurrent map writes" or "concurrent map read and map write", which
\* no recover() catches: the process is gone.
ServeHTTP_TableFault(r) ==
    /\ req[r].pc \in {"register", "delete"}
    /\ \/ TableWriters(req[r].ep) \ {r} # {}
       \/ TableReaders(req[r].ep) # {}
    /\ req' = [req EXCEPT ![r].pc = "fatal"]
    /\ UNCHANGED <<EndpointMap, ConnMap, MsgChan, closed, snd, added, dbvars, ctlvars>>

\* the same throw, raised in the goroutine of the sender that reads
Sender_TableFault(s) ==
    /\ \E e \in Endpoints : s \in TableReaders(e) /\ TableWriters(e) # {}
    /\ snd' = [snd EXCEPT ![s].pc = "fatal"]
    /\ UNCHANGED <<EndpointMap, ConnMap, MsgChan, closed, req, added, dbvars, ctlvars>>

\* the process has been brought down: by a runtime throw, or by the panic
\* of a nil pointer dereference in a goroutine of a caller
ProcessFatal ==
    \/ \E r \in Reqs : req[r].pc = "fatal"
    \/ \E s \in DOMAIN snd : snd[s].pc \in {"fatal", "panicked"}

(* -------------------------------- Manager ------------------------------ *)

\* mutant: a path that is already registered keeps its endpoint
AddEndpoint_KeepsFirst(e) ==
    /\ Len(added) < MaxAdds
    /\ EndpointMap' = IF EndpointPathOf(e) \in DOMAIN EndpointMap THEN EndpointMap
                       ELSE MapSet(EndpointMap, EndpointPathOf(e), e)
    /\ added' = Append(added, e)
    /\ UNCHANGED <<ConnMap, MsgChan, closed, req, snd, dbvars, ctlvars>>

\* Manager.AddEndpoint
AddEndpoint(e) ==
    /\ Len(added) < MaxAdds
    /\ EndpointMap' = MapSet(EndpointMap, EndpointPathOf(e), e)
    /\ added' = Append(added, e)
    /\ UNCHANGED <<ConnMap, MsgChan, closed, req, snd, dbvars, ctlvars>>

\* what Manager.GetConnCount and Manager.GetMsgChan return
IntResult(n) == [type |-> "int", value |-> n]
ChanResult(e) == [type |-> "MsgChan", endpoint |-> e]

\* Manager.GetConnCount: the endpoint is looked up and its GetConnCount
\* is called whatever the lookup gave; on a nil *Endpoint the read of
\* e.ConnMap in len(e.ConnMap) is a nil pointer dereference, which panics
Manager_GetConnCount(s, endpointPath) ==
    /\ snd[s].pc = "idle"
    /\ LET endpoint == GetEndpoint(endpointPath)
           c == NewCall("GetConnCount", [EndpointPath |-> endpointPath])
       IN  snd' = [snd EXCEPT ![s] =
                     IF endpoint = Nil
                     THEN [c EXCEPT !.pc = "panicked"]
                     ELSE Finish(c, IntResult(Cardinality(DOMAIN ConnMap[endpoint])))]
    /\ UNCHANGED <<EndpointMap, ConnMap, MsgChan, closed, req, added, dbvars, ctlvars>>

\* Manager.GetMsgChan: nil for an unknown path, else the endpoint's channel
Manager_GetMsgChan(s, endpointPath) ==
    /\ snd[s].pc = "idle"
    /\ LET endpoint == GetEndpoint(endpointPath)
           c == NewCall("GetMsgChan", [EndpointPath |-> endpointPath])
       IN  snd' = [snd EXCEPT ![s] = Finish(c, ChanResult(endpoint))]
    /\ UNCHANGED <<EndpointMap, ConnMap, MsgChan, closed, req, added, dbvars, ctlvars>>

(* ----------------------- badgerdb: the counter ------------------------- *)

\* the largest value a counter reaches
MaxCounter == 2

\* goroutines that call DB.WithCounterTransaction
Callers == {"t1", "t2"}

\* the counter every call names: the key the counter is stored under
counterKey == "c"

\* WriteWithCounter's key for an id: counter + separator + FormatUint(id, 10)
ItemKey(id) ==
    CASE id = 1 -> "c/1"
      [] id = 2 -> "c/2"
      [] id = 3 -> "c/3"
      [] OTHER  -> "c/4"

\* the data a callback stores: any bytes
ItemData == <<104, 105>>

\* binary.BigEndian.PutUint64 for the values a counter reaches here (below
\* 2^24): five zero bytes and the three low bytes
PutUint64(v) ==
    [i \in 1..8 |-> IF i <= 5 THEN 0 ELSE (v \div (256 ^ (8 - i))) % 256]

\* binary.BigEndian.Uint64 on values whose five high bytes are zero
Uint64(b) == b[6] * 65536 + b[7] * 256 + b[8]

ErrKeyNotFound == [type |-> "ErrKeyNotFound"]
ErrConflict    == [type |-> "ErrConflict"]
\* any other error of the transaction: of a read, a write or the commit
TxnError       == [type |-> "TxnError"]
\* the error a callback returns
CallbackError  == [type |-> "CallbackError"]

\* the callbacks a caller passes: none, or one that may write an item
Callbacks == {"nil", "fn"}

\* A caller's locals.  view is the snapshot its transaction reads (the
\* store as it was when the transaction began), pending its own writes,
\* stale the keys other transactions have committed since; called counts the calls of fn and arg is the id fn
\* was called with.  current is history: the counter in the snapshot (0
\* when the key is absent).
IdleTxn ==
    [pc |-> "idle", fn |-> "nil", view |-> <<>>, pending |-> <<>>,
     reads |-> {}, stale |-> {}, currentID |-> 0, newID |-> 0,
     called |-> 0, arg |-> 0, current |-> 0,
     result |-> [id |-> 0, err |-> NoError]]

\* the value of the counter in a store
StoredCounter(kv) == IF counterKey \in DOMAIN kv THEN Uint64(kv[counterKey]) ELSE 0

\* the call returns (id, err); its transaction, if any, has been discarded
TxnDone(c, id, err) ==
    [c EXCEPT !.pc = "done", !.pending = <<>>, !.result = [id |-> id, err |-> err]]

\* DB.GetCounter: a read-only transaction
GetCounter(kv) ==
    IF counterKey \in DOMAIN kv
    THEN [id |-> Uint64(kv[counterKey]), err |-> NoError]
    ELSE [id |-> 0, err |-> ErrKeyNotFound]

\* WithCounterTransaction, lines 61-65: without a callback the counter is
\* only read; with one, db.Update opens a transaction on the current store
WithCounterTransaction(t, fn) ==
    /\ txn[t].pc = "idle"
    /\ StoredCounter(store) < MaxCounter
    /\ txn' = [txn EXCEPT ![t] =
                 IF fn = "nil"
                 THEN [IdleTxn EXCEPT !.pc = "done", !.result = GetCounter(store),
                                      !.current = StoredCounter(store)]
                 ELSE [IdleTxn EXCEPT !.pc = "get", !.fn = fn, !.view = store,
                                      !.current = StoredCounter(store)]]
    /\ UNCHANGED <<EndpointMap, ConnMap, MsgChan, closed, req, snd, added,
                   store, issued, buckets, btx, ctlvars>>

\* lines 66-84: txn.Get(counterKey) and ValueCopy.  The key is absent
\* (currentID = 0), or its value is read, or the read fails and the
\* closure returns the error with currentID still zero.
Txn_Get(t, ok) ==
    /\ txn[t].pc = "get"
    /\ LET c == [txn[t] EXCEPT !.reads = @ \cup {counterKey}]
           cur == IF counterKey \in DOMAIN c.view THEN Uint64(c.view[counterKey]) ELSE 0
       IN  txn' = [txn EXCEPT ![t] =
                     IF ok
                     THEN [c EXCEPT !.pc = "fn", !.currentID = cur, !.newID = cur + 1]
                     ELSE TxnDone(c, c.currentID, TxnError)]
    /\ UNCHANGED <<EndpointMap, ConnMap, MsgChan, closed, req, snd, added,
                   store, issued, buckets, btx, ctlvars>>

\* lines 86-88: fn(newID, txn).  The callback may store an item under the
\* id in the transaction, and returns nil or an error.
Txn_Callback(t, writes, ok) ==
    /\ txn[t].pc = "fn"
    /\ LET c == [txn[t] EXCEPT
                   !.called = @ + 1, !.arg = txn[t].newID,
                   !.pending = IF writes THEN MapSet(@, ItemKey(txn[t].newID), ItemData)
                               ELSE @]
       IN  txn' = [txn EXCEPT ![t] =
                     IF ok THEN [c EXCEPT !.pc = "set"]
                     ELSE TxnDone(c, c.currentID, CallbackError)]
    /\ UNCHANGED <<EndpointMap, ConnMap, MsgChan, closed, req, snd, added,
                   store, issued, buckets, btx, ctlvars>>

\* lines 90-95: txn.Set(counterKey, buf)
Txn_Set(t, ok) ==
    /\ txn[t].pc = "set"
    /\ txn' = [txn EXCEPT ![t] =
                 IF ok
                 THEN [@ EXCEPT !.pc = "commit",
                                !.pending = MapSet(@, counterKey, PutUint64(txn[t].newID))]
                 ELSE TxnDone(@, txn[t].currentID, TxnError)]
    /\ UNCHANGED <<EndpointMap, ConnMap, MsgChan, closed, req, snd, added,
                   store, issued, buckets, btx, ctlvars>>

\* the store after a transaction's writes have been applied
Applied(kv, pending) ==
    [k \in (DOMAIN kv) \cup (DOMAIN pending) |->
        IF k \in DOMAIN pending THEN pending[k] ELSE kv[k]]

\* mutant: commits detect no conflict
Conflict_Never(c) == FALSE

\* a key the transaction read was committed by another one after it began
Conflict(c) == c.reads \cap c.stale # {}

\* the transactions that are open besides that of t
OpenBesides(t) == {u \in Callers \ {t} : txn[u].pc \in {"get", "fn", "set", "commit"}}

\* mutant: a commit that fails leaves its writes in the store
Txn_Commit_NoRollback(t, ok) ==
    /\ txn[t].pc = "commit"
    /\ ok => ~Conflict(txn[t])
    /\ LET c == txn[t]
       IN  /\ store' = Applied(store, c.pending)
           /\ txn' = [u \in Callers |->
                        IF u = t
                        THEN IF ok THEN TxnDone(c, c.newID, NoError)
                             ELSE TxnDone(c, c.currentID,
                                          IF Conflict(c) THEN ErrConflict ELSE TxnError)
                        ELSE IF ok /\ u \in OpenBesides(t)
                             THEN [txn[u] EXCEPT !.stale = @ \cup DOMAIN c.pending]
                             ELSE txn[u]]
           /\ issued' = IF ok THEN Append(issued, c.newID) ELSE issued
    /\ UNCHANGED <<EndpointMap, ConnMap, MsgChan, closed, req, snd, added,
                   buckets, btx, ctlvars>>

\* db.Update's txn.Commit() and lines 98-101.  The commit fails with
\* ErrConflict when a key the transaction read was committed by another
\* one after it began, and may fail otherwise; a failed commit writes
\* nothing.  A successful one applies every write at once.
Txn_Commit(t, ok) ==
    /\ txn[t].pc = "commit"
    /\ ok => ~Conflict(txn[t])
    /\ LET c == txn[t]
       IN  /\ store' = IF ok THEN Applied(store, c.pending) ELSE store
           /\ txn' = [u \in Callers |->
                        IF u = t
                        THEN IF ok THEN TxnDone(c, c.newID, NoError)
                             ELSE TxnDone(c, c.currentID,
                                          IF Conflict(c) THEN ErrConflict ELSE TxnError)
                        ELSE IF ok /\ u \in OpenBesides(t)
                             THEN [txn[u] EXCEPT !.stale = @ \cup DOMAIN c.pending]
                             ELSE txn[u]]
           /\ issued' = IF ok THEN Append(issued, c.newID) ELSE issued
    /\ UNCHANGED <<EndpointMap, ConnMap, MsgChan, closed, req, snd, added,
                   buckets, btx, ctlvars>>

\* the caller takes the result
Txn_Return(t) ==
    /\ txn[t].pc = "done"
    /\ txn' = [txn EXCEPT ![t] = IdleTxn]
    /\ UNCHANGED <<EndpointMap, ConnMap, MsgChan, closed, req, snd, added,
                   store, issued, buckets, btx, ctlvars>>

(* ----------------------- bboltdb: nested buckets ----------------------- *)

\* the longest bucket list a caller passes
MaxDepth == 2

\* goroutines that call the Nested*Transaction functions
BoltCallers == {"b1", "b2"}

\* bucket and key names; the empty name is one a caller may pass
BucketNames == {"", "a"}

BucketLists == SeqsUpTo(BucketNames, MaxDepth)

ErrEmptyBuckets       == [type |-> "ErrEmptyBuckets"]
ErrBucketNameRequired == [type |-> "ErrBucketNameRequired"]
ErrIncompatibleValue  == [type |-> "ErrIncompatibleValue"]

\* a nil *bbolt.Bucket; a bucket is named by its path from the root
NoBucket == <<"nil", "nil", "nil", "nil">>

\* A tree maps the path of every bucket and of every plain key to its
\* kind.  tx.Bucket and Bucket.Bucket: the bucket at a path, or nil when
\* nothing is there or a plain key is.
IsBucket(tree, path) == path \in DOMAIN tree /\ tree[path] = "bucket"

RECURSIVE getFrom(_, _, _)
\* getNestedBucket, lines 108-118, having reached the first k names
getFrom(tree, bucketList, k) ==
    IF k = Len(bucketList) THEN [b |-> bucketList, err |-> NoError]
    ELSE IF ~IsBucket(tree, SubSeq(bucketList, 1, k + 1))
         THEN [b |-> NoBucket, err |-> NoError]
         ELSE getFrom(tree, bucketList, k + 1)

\* getNestedBucket
getNestedBucket(tree, bucketList) ==
    IF Len(bucketList) = 0 THEN [b |-> NoBucket, err |-> ErrEmptyBuckets]
    ELSE getFrom(tree, bucketList, 0)

RECURSIVE createFrom(_, _, _)
\* createNestedBucket, lines 132-142, having reached the first k names.
\* CreateBucketIfNotExists refuses an empty name and a name that a plain
\* key holds, returns the bucket that exists, and creates it otherwise.
createFrom(tree, bucketList, k) ==
    IF k = Len(bucketList) THEN [tree |-> tree, b |-> bucketList, err |-> NoError]
    ELSE LET path == SubSeq(bucketList, 1, k + 1)
         IN  IF bucketList[k + 1] = ""
             THEN [tree |-> tree, b |-> NoBucket, err |-> ErrBucketNameRequired]
             ELSE IF path \in DOMAIN tree /\ tree[path] # "bucket"
             THEN [tree |-> tree, b |-> NoBucket, err |-> ErrIncompatibleValue]
             ELSE createFrom(MapSet(tree, path, "bucket"), bucketList, k + 1)

\* mutant: only the last bucket of the list is created
createNestedBucket_LastOnly(tree, bucketList) ==
    IF Len(bucketList) = 0
    THEN [tree |-> tree, b |-> NoBucket, err |-> ErrEmptyBuckets]
    ELSE createFrom(tree, bucketList, Len(bucketList) - 1)

\* createNestedBucket
createNestedBucket(tree, bucketList) ==
    IF Len(bucketList) = 0
    THEN [tree |-> tree, b |-> NoBucket, err |-> ErrEmptyBuckets]
    ELSE createFrom(tree, bucketList, 0)

\* A caller's locals.  tree is the tree its transaction works on, b the
\* bucket handed to fn; called counts the calls of fn.  begun and atCall
\* are history: the tree when the transaction began and when fn was called.
IdleBtx ==
    [pc |-> "idle", op |-> "none", bucketList |-> <<>>, tree |-> <<>>,
     b |-> NoBucket, called |-> 0, begun |-> <<>>, atCall |-> <<>>,
     result |-> NoError]

\* the call returns err; an update that failed is rolled back
BtxDone(c, err) == [c EXCEPT !.pc = "done", !.result = err]

\* a writing transaction is open: db.Update waits for it
WriterOpen == \E c \in BoltCallers : btx[c].op = "update" /\ btx[c].pc = "fn"

\* NestedUpdateTransaction, lines 146-151: db.Update begins a writing
\* transaction and the buckets are created in it
NestedUpdateTransaction(c, bucketList) ==
    /\ btx[c].pc = "idle"
    /\ ~WriterOpen
    /\ LET made == createNestedBucket(buckets, bucketList)
           new  == [IdleBtx EXCEPT !.op = "update", !.bucketList = bucketList,
                                   !.begun = buckets, !.tree = made.tree,
                                   !.b = made.b]
       IN  btx' = [btx EXCEPT ![c] =
                     IF made.err # NoError THEN BtxDone(new, made.err)
                     ELSE [new EXCEPT !.pc = "fn"]]
    /\ UNCHANGED <<EndpointMap, ConnMap, MsgChan, closed, req, snd, added,
                   store, txn, issued, buckets, ctlvars>>

\* NestedViewTransaction, lines 157-165: db.View begins a read-only
\* transaction and the bucket is looked up in it
NestedViewTransaction(c, bucketList) ==
    /\ btx[c].pc = "idle"
    /\ LET got == getNestedBucket(buckets, bucketList)
           new == [IdleBtx EXCEPT !.op = "view", !.bucketList = bucketList,
                                  !.begun = buckets, !.tree = buckets, !.b = got.b]
       IN  btx' = [btx EXCEPT ![c] =
                     IF got.err # NoError THEN BtxDone(new, got.err)
                     ELSE IF got.b = NoBucket THEN BtxDone(new, NoError)
                     ELSE [new EXCEPT !.pc = "fn"]]
    /\ UNCHANGED <<EndpointMap, ConnMap, MsgChan, closed, req, snd, added,
                   store, txn, issued, buckets, ctlvars>>

\* line 152: fn(tx, b) in a writing transaction.  The callback may put a
\* plain key into its bucket (unless a bucket has that name) and returns
\* nil or an error; nil commits the transaction, an error rolls it back.
UpdateCallback_Put(c, key, ok) ==
    /\ btx[c].pc = "fn" /\ btx[c].op = "update"
    /\ LET path == Append(btx[c].b, key)
           tree == IF key = "" \/ IsBucket(btx[c].tree, path) THEN btx[c].tree
                   ELSE MapSet(btx[c].tree, path, "value")
       IN  /\ btx' = [btx EXCEPT ![c] =
                        BtxDone([@ EXCEPT !.called = @ + 1, !.atCall = btx[c].tree,
                                          !.tree = tree],
                                IF ok THEN NoError ELSE CallbackError)]
           /\ buckets' = IF ok THEN tree ELSE buckets
    /\ UNCHANGED <<EndpointMap, ConnMap, MsgChan, closed, req, snd, added,
                   store, txn, issued, ctlvars>>

\* line 166: fn(tx, b) in a read-only transaction, where every write is
\* refused; the callback returns nil or an error
ViewCallback(c, ok) ==
    /\ btx[c].pc = "fn" /\ btx[c].op = "view"
    /\ btx' = [btx EXCEPT ![c] =
                 BtxDone([@ EXCEPT !.called = @ + 1, !.atCall = btx[c].tree],
                         IF ok THEN NoError ELSE CallbackError)]
    /\ UNCHANGED <<EndpointMap, ConnMap, MsgChan, closed, req, snd, added,
                   store, txn, issued, buckets, ctlvars>>

\* the caller takes the result
Btx_Return(c) ==
    /\ btx[c].pc = "done"
    /\ btx' = [btx EXCEPT ![c] = IdleBtx]
    /\ UNCHANGED <<EndpointMap, ConnMap, MsgChan, closed, req, snd, added,
                   store, txn, issued, buckets, ctlvars>>

(* ----------------------- cmd: the control server ---------------------- *)

\* control requests in a run of the server
MaxRequests == 3

\* requests whose handlers run at the same time
CtlRequests == {"h1", "h2"}

\* the members <<name, value>> of the JSON objects the requests carry
Members == {<<"k1", "x">>, <<"k2", "y">>}

\* The body of a restart request: one that cannot be read, bytes that are
\* no JSON object, the JSON value null, or a JSON object given by its
\* members in the order in which they are written.
Bodies ==
    {[kind |-> k, members |-> <<>>] : k \in {"unreadable", "invalid", "null"}}
        \cup {[kind |-> "object", members |-> m] :
                 m \in {<<>>, <<<<"k1", "x">>>>, <<<<"k2", "y">>>>,
                        <<<<"k1", "x">>, <<"k1", "z">>>>}}

NoBody == [kind |-> "none", members |-> <<>>]

\* the environment the server is constructed with
StartEnv == [k \in {"k1"} |-> "a"]

\* json.Unmarshal of an object into a map: a name that is written more
\* than once keeps its last value
RECURSIVE ObjectOf(_)
ObjectOf(members) ==
    IF members = <<>> THEN EmptyMap
    ELSE LET last == members[Len(members)]
         IN  MapSet(ObjectOf(SubSeq(members, 1, Len(members) - 1)), last[1], last[2])

\* lines 395-399: the names of n.env that the request does not give are
\* added with their values
MergeEnv(request, stored) ==
    [k \in (DOMAIN request) \cup (DOMAIN stored) |->
        IF k \in DOMAIN request THEN request[k] ELSE stored[k]]

NoResponse == [Success |-> FALSE, Error |-> "none"]
Succeeded == [Success |-> TRUE, Error |-> ""]
Failure(error) == [Success |-> FALSE, Error |-> error]

\* A handler's locals: env is the map decoded from the body and filled up
\* from n.env.  merged is history: n.env as the handler read it; n counts
\* the requests the slot has taken.
IdleHandler ==
    [pc |-> "idle", kind |-> "none", body |-> NoBody, env |-> EmptyMap,
     merged |-> EmptyMap, result |-> NoResponse, n |-> 0]

\* the requests taken so far
RequestsTaken == handlers["h1"].n + handlers["h2"].n

\* the handler answers
Respond(c, response) == [c EXCEPT !.pc = "done", !.result = response]

\* an instance of the business program as line 331 or 406 starts it
Instance(stopctx, e) == [stopctx |-> stopctx, env |-> e, pc |-> "running"]

\* An instance sees its context cancelled, cleans up and reaches its send
\* on cleanupDone; the channel is unbuffered, so the instance waits there
\* until a handler receives.
Program_Stopped(i) ==
    /\ programs[i].pc = "running"
    /\ programs[i].stopctx \in cancelled
    /\ programs' = [programs EXCEPT ![i].pc = "signal"]
    /\ UNCHANGED <<EndpointMap, ConnMap, MsgChan, closed, req, snd, added, dbvars,
                   env, programStopContext, cancelled, handlers, listening>>

\* an instance ends of its own accord and reaches its send on cleanupDone
Program_Exits(i) ==
    /\ programs[i].pc = "running"
    /\ programs[i].stopctx \notin cancelled
    /\ programs' = [programs EXCEPT ![i].pc = "signal"]
    /\ UNCHANGED <<EndpointMap, ConnMap, MsgChan, closed, req, snd, added, dbvars,
                   env, programStopContext, cancelled, handlers, listening>>

\* /control/restart, lines 371-399: the body is read and decoded, which
\* may fail and end the request, and the map is filled up from n.env
Restart_Request(h, body) ==
    /\ listening
    /\ handlers[h].pc = "idle"
    /\ RequestsTaken < MaxRequests
    /\ LET c == [IdleHandler EXCEPT !.kind = "restart", !.body = body,
                                    !.n = handlers[h].n + 1]
       IN  handlers' = [handlers EXCEPT ![h] =
             CASE body.kind = "unreadable" -> Respond(c, Failure("ReadAll"))
               [] body.kind = "invalid"    -> Respond(c, Failure("Unmarshal"))
               [] OTHER ->
                    [c EXCEPT !.pc = "cancel", !.merged = env,
                              !.env = MergeEnv(ObjectOf(body.members), env)]]
    /\ UNCHANGED <<EndpointMap, ConnMap, MsgChan, closed, req, snd, added, dbvars,
                   env, programStopContext, cancelled, programs, listening>>

\* line 400: n.programStopContext.cancel()
Restart_Cancel(h) ==
    /\ handlers[h].pc = "cancel"
    /\ cancelled' = cancelled \cup {programStopContext}
    /\ handlers' = [handlers EXCEPT ![h].pc = "select"]
    /\ UNCHANGED <<EndpointMap, ConnMap, MsgChan, closed, req, snd, added, dbvars,
                   env, programStopContext, programs, listening>>

\* line 402: the handler receives what instance i sends on cleanupDone
Restart_Receive(h, i) ==
    /\ handlers[h].pc = "select"
    /\ programs[i].pc = "signal"
    /\ programs' = [programs EXCEPT ![i].pc = "exited"]
    /\ handlers' = [handlers EXCEPT ![h].pc = "newctx"]
    /\ UNCHANGED <<EndpointMap, ConnMap, MsgChan, closed, req, snd, added, dbvars,
                   env, programStopContext, cancelled, listening>>

\* mutant: a restart that timed out starts the program all the same
Restart_Timeout_StartsAnyway(h) ==
    /\ handlers[h].pc = "select"
    /\ handlers' = [handlers EXCEPT ![h].pc = "newctx"]
    /\ UNCHANGED <<EndpointMap, ConnMap, MsgChan, closed, req, snd, added, dbvars,
                   env, programStopContext, cancelled, programs, listening>>

\* lines 410-417: ctrltimeout seconds have passed
Restart_Timeout(h) ==
    /\ handlers[h].pc = "select"
    /\ handlers' = [handlers EXCEPT ![h] = Respond(@, Failure("Program stop timeout"))]
    /\ UNCHANGED <<EndpointMap, ConnMap, MsgChan, closed, req, snd, added, dbvars,
                   env, programStopContext, cancelled, programs, listening>>

\* line 404: a new context and its cancel function are stored
Restart_NewContext(h) ==
    /\ handlers[h].pc = "newctx"
    /\ programStopContext' = programStopContext + 1
    /\ handlers' = [handlers EXCEPT ![h].pc = "setenv"]
    /\ UNCHANGED <<EndpointMap, ConnMap, MsgChan, closed, req, snd, added, dbvars,
                   env, cancelled, programs, listening>>

\* line 405: n.env = env
Restart_SetEnv(h) ==
    /\ handlers[h].pc = "setenv"
    /\ env' = handlers[h].env
    /\ handlers' = [handlers EXCEPT ![h].pc = "start"]
    /\ UNCHANGED <<EndpointMap, ConnMap, MsgChan, closed, req, snd, added, dbvars,
                   programStopContext, cancelled, programs, listening>>

\* lines 406-408: go n.program(n.programStopContext.stopctx, n.env,
\* n.cleanupDone), and the handler answers
Restart_Start(h) ==
    /\ handlers[h].pc = "start"
    /\ programs' = Append(programs, Instance(programStopContext, env))
    /\ handlers' = [handlers EXCEPT ![h] = Respond(@, Succeeded)]
    /\ UNCHANGED <<EndpointMap, ConnMap, MsgChan, closed, req, snd, added, dbvars,
                   env, programStopContext, cancelled, listening>>

\* /control/stop, line 340: n.programStopContext.cancel()
Stop_Request(h) ==
    /\ listening
    /\ handlers[h].pc = "idle"
    /\ RequestsTaken < MaxRequests
    /\ cancelled' = cancelled \cup {programStopContext}
    /\ handlers' = [handlers EXCEPT ![h] =
                      [IdleHandler EXCEPT !.pc = "stop_select", !.kind = "stop",
                                          !.n = handlers[h].n + 1]]
    /\ UNCHANGED <<EndpointMap, ConnMap, MsgChan, closed, req, snd, added, dbvars,
                   env, programStopContext, programs, listening>>

\* line 342: the handler receives what instance i sends on cleanupDone
Stop_Receive(h, i) ==
    /\ handlers[h].pc = "stop_select"
    /\ programs[i].pc = "signal"
    /\ programs' = [programs EXCEPT ![i].pc = "exited"]
    /\ handlers' = [handlers EXCEPT ![h].pc = "shutdown"]
    /\ UNCHANGED <<EndpointMap, ConnMap, MsgChan, closed, req, snd, added, dbvars,
                   env, programStopContext, cancelled, listening>>

\* lines 358-365: ctrltimeout seconds have passed
Stop_Timeout(h) ==
    /\ handlers[h].pc = "stop_select"
    /\ handlers' = [handlers EXCEPT ![h] = Respond(@, Failure("Program stop timeout"))]
    /\ UNCHANGED <<EndpointMap, ConnMap, MsgChan, closed, req, snd, added, dbvars,
                   env, programStopContext, cancelled, programs, listening>>

\* lines 343-357: server.Shutdown closes the listener, and returns nil or
\* an error when its own time is up
Stop_Shutdown(h, ok) ==
    /\ handlers[h].pc = "shutdown"
    /\ listening' = FALSE
    /\ handlers' = [handlers EXCEPT ![h] =
                      Respond(@, IF ok THEN Succeeded
                                 ELSE Failure("Program stopped but server did not shut down"))]
    /\ UNCHANGED <<EndpointMap, ConnMap, MsgChan, closed, req, snd, added, dbvars,
                   env, programStopContext, cancelled, programs>>

\* the response has gone out
Handler_Return(h) ==
    /\ handlers[h].pc = "done"
    /\ handlers' = [handlers EXCEPT ![h] = [IdleHandler EXCEPT !.n = handlers[h].n]]
    /\ UNCHANGED <<EndpointMap, ConnMap, MsgChan, closed, req, snd, added, dbvars,
                   env, programStopContext, cancelled, programs, listening>>

(* ---------------------------- specifications --------------------------- *)

\* the stores as Open returns them for a new database
InitDb ==
    /\ store = EmptyMap
    /\ issued = <<>>
    /\ txn = [t \in Callers |-> IdleTxn]
    /\ buckets = EmptyMap
    /\ btx = [c \in BoltCallers |-> IdleBtx]

\* the control server after newNexusCmdServer and the first statement of
\* start(): the first instance runs with the first context
InitCtl ==
    /\ env = StartEnv
    /\ programStopContext = 1
    /\ cancelled = {}
    /\ programs = <<Instance(1, StartEnv)>>
    /\ handlers = [h \in CtlRequests |-> IdleHandler]
    /\ listening = TRUE

Init ==
    /\ EndpointMap = EmptyMap
    /\ ConnMap = [e \in Endpoints |-> EmptyMap]
    /\ MsgChan = [e \in Endpoints |-> <<>>]
    /\ closed = {}
    /\ req = [r \in Reqs |-> IdleReq]
    /\ snd = [s \in Senders |-> IdleSnd]
    /\ added = <<>>
    /\ InitDb
    /\ InitCtl

\* the handshakes and serving loops of the requests that reach the
\* endpoints mounted at "/chat" and "/news"
NextServe ==
    \E r \in Reqs :
        \/ \E e \in {"A", "B"}, a \in {<<FALSE, "u1">>, <<TRUE, "u1">>, <<TRUE, "u2">>} :
               ServeHTTP_Auth(r, e, a[1], a[2])
        \/ \E ok \in BOOLEAN : ServeHTTP_Upgrade(r, ok)
        \/ ServeHTTP_Register(r)
        \/ \E f \in InFrames : ServeHTTP_ReadFrame(r, f)
        \/ ServeHTTP_ReadError(r)
        \/ ServeHTTP_ReadPanic(r)
        \/ ServeHTTP_Push(r)
        \/ ServeHTTP_DeferDelete(r)
        \/ ServeHTTP_DeferClose(r)

SpecServe == Init /\ [][NextServe]_vars

\* the messages the senders pass
OutKinds == {0, BinaryMessage}
OutPaths == {"/chat", "/missing"}

Messages ==
    [MessageType : OutKinds, Message : {"hi"}, EndpointPath : OutPaths, ConnId : ConnIds]

BatchEntries ==
    {NilMessage,
     [MessageType |-> 0, Message |-> "hi", EndpointPath |-> "/chat", ConnId |-> "u1"],
     [MessageType |-> BinaryMessage, Message |-> "hi", EndpointPath |-> "/chat",
      ConnId |-> "u2"],
     [MessageType |-> 0, Message |-> "hi", EndpointPath |-> "/missing", ConnId |-> "u1"]}

MultiMessages == SeqsUpTo(BatchEntries, MaxBatch)

EndpointMessages ==
    [MessageType : OutKinds, Message : {"hi"}, ConnIds : SeqsUpTo(ConnIds, MaxIds)]

BroadcastMessages ==
    [MessageType : OutKinds, Message : {"hi"}, EndpointPath : {"", "/chat", "/missing"}]

\* the manager after its configuration: A serves "/chat" and B "/news"
InitSend ==
    /\ EndpointMap = [k \in {"/chat", "/news"} |-> IF k = "/chat" THEN "A" ELSE "B"]
    /\ ConnMap = [e \in Endpoints |-> EmptyMap]
    /\ MsgChan = [e \in Endpoints |-> <<>>]
    /\ closed = {}
    /\ req = [r \in Reqs |-> IdleReq]
    /\ snd = [s \in Senders |-> IdleSnd]
    /\ added = <<"A", "B">>
    /\ InitDb
    /\ InitCtl

\* the steps of a send
SendSteps(s) ==
    \/ MultiMessage_Send_Entry(s)
    \/ Endpoint_SendMessage_GetConn(s)
    \/ BroadcastMessage_Send_NextEndpoint(s)
    \/ writeMessageForConns_Next(s)
    \/ writeMessageForConns_End(s)
    \/ \E ok \in BOOLEAN : WriteMessage(s, ok)
    \/ Return(s)

\* a connection that comes and goes (its peer sends no frame)
ConnSteps(r) ==
    \/ \E e \in {"A", "B"}, id \in ConnIds : ServeHTTP_Auth(r, e, TRUE, id)
    \/ ServeHTTP_Upgrade(r, TRUE)
    \/ ServeHTTP_Register(r)
    \/ ServeHTTP_ReadError(r)
    \/ ServeHTTP_DeferDelete(r)
    \/ ServeHTTP_DeferClose(r)

\* connections come and go while one caller sends messages of every kind;
\* a caller takes the result of its send before anything else goes on
NextSend ==
    \/ /\ \A s \in Senders : snd[s].pc # "done"
       /\ \E r \in Reqs : ConnSteps(r)
    \/ \E s \in Senders :
          \/ \E m \in Messages : Message_Send(s, m)
          \/ \E mm \in MultiMessages : MultiMessage_Send(s, mm)
          \/ \E e \in {"A", "B"}, msg \in EndpointMessages : Endpoint_SendMessage(s, e, msg)
          \/ \E m \in BroadcastMessages : BroadcastMessage_Send(s, m)
          \/ SendSteps(s)

SpecSend == InitSend /\ [][NextSend]_vars

\* the messages and paths of the callers of a Manager whose endpoints are
\* being registered
ManageMessages ==
    [MessageType : {0}, Message : {"hi"}, EndpointPath : OutPaths, ConnId : {"u1"}]

ManageBroadcasts ==
    [MessageType : {0}, Message : {"hi"}, EndpointPath : {"", "/chat", "/missing"}]

\* a connection of the endpoints built for "/chat" that comes and goes
ManageConnSteps(r) ==
    \/ \E e \in {"A", "C"} : ServeHTTP_Auth(r, e, TRUE, "u1")
    \/ ServeHTTP_Upgrade(r, TRUE)
    \/ ServeHTTP_Register(r)
    \/ ServeHTTP_ReadError(r)
    \/ ServeHTTP_DeferDelete(r)
    \/ ServeHTTP_DeferClose(r)

\* endpoints are registered and replaced while connections come and go
\* and one caller sends and reads through the Manager
NextManage ==
    \/ /\ \A s \in Senders : snd[s].pc # "done"
       /\ \/ \E e \in Endpoints : AddEndpoint(e)
          \/ \E r \in Reqs : ManageConnSteps(r)
    \/ \E s \in Senders :
          \/ \E m \in ManageMessages : Message_Send(s, m)
          \/ \E m \in ManageBroadcasts : BroadcastMessage_Send(s, m)
          \/ \E path \in OutPaths : Manager_GetConnCount(s, path)
          \/ \E path \in OutPaths : Manager_GetMsgChan(s, path)
          \/ BroadcastMessage_Send_NextEndpoint(s)
          \/ writeMessageForConns_Next(s)
          \/ writeMessageForConns_End(s)
          \/ \E ok \in BOOLEAN : WriteMessage(s, ok)
          \/ Return(s)

SpecManage == Init /\ [][NextManage]_vars

\* the steps a serving goroutine takes by itself once it is scheduled: the
\* insert, the return of a read on a connection its peer has closed, and
\* the deferred cleanup.  The send on the channel is not among them: it
\* waits for a receiver, and no code of the endpoint receives.
ServeHTTP_OwnStep(r) ==
    \/ ServeHTTP_Register(r)
    \/ req[r].peerClosed /\ ServeHTTP_ReadError(r)
    \/ ServeHTTP_DeferDelete(r)
    \/ ServeHTTP_DeferClose(r)

\* connections of "/chat" whose peers send frames and close
NextLive ==
    \E r \in Reqs :
        \/ \E id \in ConnIds : ServeHTTP_Auth(r, "A", TRUE, id)
        \/ ServeHTTP_Upgrade(r, TRUE)
        \/ ServeHTTP_Register(r)
        \/ \E f \in InFrames : ServeHTTP_ReadFrame(r, f)
        \/ PeerClose(r)
        \/ ServeHTTP_ReadError(r)
        \/ ServeHTTP_Push(r)
        \/ ServeHTTP_DeferDelete(r)
        \/ ServeHTTP_DeferClose(r)

\* every goroutine that can take a step of its own is scheduled
SpecLive ==
    Init /\ [][NextLive]_vars /\ \A r \in Reqs : WF_vars(ServeHTTP_OwnStep(r))

\* what the callers of SpecFatal pass
FatalMessages ==
    [MessageType : {0}, Message : {"hi"}, EndpointPath : {"/chat"}, ConnId : {"u1"}]

FatalBroadcasts == [MessageType : {0}, Message : {"hi"}, EndpointPath : {"", "/chat"}]

\* connections of "/chat" come and go while one caller sends and counts
\* through the Manager; after a fatal fault nothing runs any more
NextFatal ==
    \/ \E r \in Reqs :
          \/ ~ProcessFatal /\ ServeHTTP_Auth(r, "A", TRUE, "u1")
          \/ ~ProcessFatal /\ ServeHTTP_Upgrade(r, TRUE)
          \/ ~ProcessFatal /\ ServeHTTP_Register(r)
          \/ ~ProcessFatal /\ ServeHTTP_ReadError(r)
          \/ ~ProcessFatal /\ ServeHTTP_DeferDelete(r)
          \/ ~ProcessFatal /\ ServeHTTP_DeferClose(r)
          \/ ~ProcessFatal /\ ServeHTTP_TableFault(r)
    \/ \E s \in Senders :
          \/ ~ProcessFatal /\ \E m \in FatalMessages : Message_Send(s, m)
          \/ ~ProcessFatal /\ \E m \in FatalBroadcasts : BroadcastMessage_Send(s, m)
          \/ ~ProcessFatal /\ \E path \in OutPaths : Manager_GetConnCount(s, path)
          \/ ~ProcessFatal /\ BroadcastMessage_Send_NextEndpoint(s)
          \/ ~ProcessFatal /\ writeMessageForConns_Next(s)
          \/ ~ProcessFatal /\ writeMessageForConns_End(s)
          \/ ~ProcessFatal /\ \E ok \in BOOLEAN : WriteMessage(s, ok)
          \/ ~ProcessFatal /\ Return(s)
          \/ ~ProcessFatal /\ Sender_TableFault(s)

SpecFatal == InitSend /\ [][NextFatal]_vars

\* two callers that send at the same time
RaceSenders == {"s1", "s2"}

InitRace ==
    /\ EndpointMap = [k \in {"/chat", "/news"} |-> IF k = "/chat" THEN "A" ELSE "B"]
    /\ ConnMap = [e \in Endpoints |-> EmptyMap]
    /\ MsgChan = [e \in Endpoints |-> <<>>]
    /\ closed = {}
    /\ req = [r \in Reqs |-> IdleReq]
    /\ snd = [s \in RaceSenders |-> IdleSnd]
    /\ added = <<"A", "B">>
    /\ InitDb
    /\ InitCtl

\* connections of "/chat" come and go while two callers send to one
\* identity and broadcast to the endpoint
NextRace ==
    \/ \E r \in Reqs :
          \/ ServeHTTP_Auth(r, "A", TRUE, "u1")
          \/ ServeHTTP_Upgrade(r, TRUE)
          \/ ServeHTTP_Register(r)
          \/ ServeHTTP_ReadError(r)
          \/ ServeHTTP_DeferDelete(r)
          \/ ServeHTTP_DeferClose(r)
    \/ \E s \in RaceSenders :
          \/ \E m \in FatalMessages : Message_Send(s, m)
          \/ BroadcastMessage_Send(s, [MessageType |-> 0, Message |-> "hi",
                                       EndpointPath |-> "/chat"])
          \/ writeMessageForConns_Next(s)
          \/ writeMessageForConns_End(s)
          \/ \E ok \in BOOLEAN : WriteMessage(s, ok)
          \/ Return(s)

SpecRace == InitRace /\ [][NextRace]_vars

\* callers of WithCounterTransaction on one database
NextBadger ==
    \E t \in Callers :
        \/ \E fn \in Callbacks : WithCounterTransaction(t, fn)
        \/ \E ok \in BOOLEAN : Txn_Get(t, ok)
        \/ \E writes, ok \in BOOLEAN : Txn_Callback(t, writes, ok)
        \/ \E ok \in BOOLEAN : Txn_Set(t, ok)
        \/ \E ok \in BOOLEAN : Txn_Commit(t, ok)
        \/ Txn_Return(t)

SpecBadger == Init /\ [][NextBadger]_vars

\* callers of the Nested*Transaction functions on one database
NextBolt ==
    \E c \in BoltCallers :
        \/ \E bucketList \in BucketLists : NestedUpdateTransaction(c, bucketList)
        \/ \E bucketList \in BucketLists : NestedViewTransaction(c, bucketList)
        \/ \E ok \in BOOLEAN : UpdateCallback_Put(c, "a", ok)
        \/ \E ok \in BOOLEAN : ViewCallback(c, ok)
        \/ Btx_Return(c)

SpecBolt == Init /\ [][NextBolt]_vars

\* restart and stop requests reach the control server while the instances
\* of the program run
NextCtl ==
    \/ \E h \in CtlRequests :
          \/ \E body \in Bodies : Restart_Request(h, body)
          \/ Restart_Cancel(h)
          \/ \E i \in DOMAIN programs : Restart_Receive(h, i)
          \/ Restart_Timeout(h)
          \/ Restart_NewContext(h)
          \/ Restart_SetEnv(h)
          \/ Restart_Start(h)
          \/ Stop_Request(h)
          \/ \E i \in DOMAIN programs : Stop_Receive(h, i)
          \/ Stop_Timeout(h)
          \/ \E ok \in BOOLEAN : Stop_Shutdown(h, ok)
          \/ Handler_Return(h)
    \/ \E i \in DOMAIN programs : Program_Stopped(i)
    \/ \E i \in DOMAIN programs : Program_Exits(i)

SpecCtl == Init /\ [][NextCtl]_vars

\* every operation of the registry, of the stores and of the control
\* server, for one caller of the sends (SpecRace has two)
Next ==
    \/ \E e \in Endpoints : AddEndpoint(e)
    \/ \E r \in Reqs : PeerClose(r)
    \/ NextServe
    \/ NextSend
    \/ NextManage
    \/ NextFatal
    \/ NextBadger
    \/ NextBolt
    \/ NextCtl

Spec == Init /\ [][Next]_vars

(* ======================= the serving loop's claims ====================== *)

\* the connections held by some table
InSomeTable == UNION {{ConnMap[e][id] : id \in DOMAIN ConnMap[e]} : e \in Endpoints}

Rejected == {"authFailed", "upgradeFailed"}
Exited == {"returned", "panicked"}

\* the messages connection r has sent on the channel of its endpoint
SentBy(r) ==
    IF req[r].ep = Nil THEN <<>>
    ELSE SelectSeq(MsgChan[req[r].ep], LAMBDA m : m.from = r)

IsPrefix(s, t) == Len(s) <= Len(t) /\ \A k \in 1..Len(s) : s[k] = t[k]

\* C6: once ServeHTTP has left the serving loop of a connection and
\* returned (after a read error or a peer close) or passed a panic on, the
\* connection is in no table and has been closed.
C6_ExitRemovesAndCloses ==
    \A r \in Reqs :
        req[r].pc \in Exited => r \in closed /\ r \notin InSomeTable

\* C6 witness: one loop has ended by a read error and one by a panic
C6_Witness ==
    \E r1, r2 \in Reqs : req[r1].pc = "returned" /\ req[r2].pc = "panicked"

\* C7: the step that rejects a handshake (auth rejection or upgrade
\* failure) changes no table, no channel and closes nothing; the matching
\* responder has then run exactly once, UpgradeFunc has not run after an
\* auth rejection, and a rejected request never acts again nor appears in
\* a table.
C7_RejectedHandshakeTouchesNothing ==
    [][\A r \in Reqs :
          /\ (req[r].pc \notin Rejected /\ req'[r].pc \in Rejected) =>
                /\ ConnMap' = ConnMap
                /\ MsgChan' = MsgChan
                /\ closed' = closed
                /\ req'[r].pc = "authFailed" =>
                      /\ req'[r].authFail = 1
                      /\ req'[r].upgrade = 0
                      /\ req'[r].upgradeFail = 0
                /\ req'[r].pc = "upgradeFailed" =>
                      /\ req'[r].authFail = 0
                      /\ req'[r].upgrade = 1
                      /\ req'[r].upgradeFail = 1
          /\ req[r].pc \in Rejected =>
                /\ req'[r] = req[r]
                /\ r \notin InSomeTable]_vars

\* C7 witness: a handshake was rejected for an identity that another
\* connection holds in the table of the same endpoint
C7_Witness ==
    \E r1, r2 \in Reqs :
        /\ req[r1].pc = "read" /\ req[r2].pc = "authFailed"
        /\ req[r1].ep = req[r2].ep /\ req[r1].id = req[r2].id
        /\ GetConn(req[r1].ep, req[r1].id) = r1

\* C8: the registration step puts the new connection in the table under
\* the identity AuthFunc returned, so that the lookup by that identity then
\* returns it whether or not the identity had an entry; it changes no other
\* entry and closes no connection.
C8_RegistrationLastWriteWins ==
    [][\A r \in Reqs :
          (req[r].pc = "register" /\ req'[r].pc = "read") =>
              /\ req[r].id \in DOMAIN ConnMap'[req[r].ep]
              /\ ConnMap'[req[r].ep][req[r].id] = r
              /\ \A e \in Endpoints : \A id \in DOMAIN ConnMap'[e] :
                    (e # req[r].ep \/ id # req[r].id) =>
                        id \in DOMAIN ConnMap[e] /\ ConnMap'[e][id] = ConnMap[e][id]
              /\ closed' = closed]_vars

\* C8 witness: two connections serve under one identity of one endpoint,
\* the table holds the second, and the displaced one is still open
C8_Witness ==
    \E r1, r2 \in Reqs :
        /\ r1 # r2
        /\ req[r1].pc = "read" /\ req[r2].pc = "read"
        /\ req[r1].ep = req[r2].ep /\ req[r1].id = req[r2].id
        /\ GetConn(req[r2].ep, req[r2].id) = r2
        /\ r1 \notin closed

\* C9: the frames a connection has sent on the inbound channel are, in
\* channel order, a prefix of the frames it read, in read order.
C9_PerConnectionOrder ==
    \A r \in Reqs :
        IsPrefix([k \in 1..Len(SentBy(r)) |->
                     <<SentBy(r)[k].MessageType, SentBy(r)[k].Message>>],
                 req[r].reads)

\* C9 witness: a connection's two different frames are on the channel
\* with a frame of another connection between them
C9_Witness ==
    \E e \in Endpoints :
        /\ Len(MsgChan[e]) >= 3
        /\ MsgChan[e][1].from = MsgChan[e][3].from
        /\ MsgChan[e][1].from # MsgChan[e][2].from
        /\ MsgChan[e][1].Message # MsgChan[e][3].Message

\* C10: every frame a serving loop has read is on the channel of its
\* endpoint exactly once, except the one the loop is about to send; each
\* message carries the endpoint's path, the identity of the registration
\* and the kind and payload of the frame.
C10_EveryFramePushedOnce ==
    \A r \in Reqs :
        /\ Len(SentBy(r)) + (IF req[r].pc = "push" THEN 1 ELSE 0) = Len(req[r].reads)
        /\ \A k \in 1..Len(SentBy(r)) :
              SentBy(r)[k] = [MessageType  |-> req[r].reads[k][1],
                              Message      |-> req[r].reads[k][2],
                              EndpointPath |-> EndpointPathOf(req[r].ep),
                              ConnId       |-> req[r].id,
                              from         |-> r]
        /\ req[r].pc = "push" => req[r].frame = req[r].reads[Len(req[r].reads)]
        /\ \A e \in Endpoints : \A k \in 1..Len(MsgChan[e]) :
              MsgChan[e][k].from = r => e = req[r].ep

\* C10 witness: a connection has read a binary and a text frame and both
\* are on the channel
C10_Witness ==
    \E r \in Reqs :
        /\ Len(req[r].reads) = 2
        /\ req[r].reads[1][1] # req[r].reads[2][1]
        /\ Len(SentBy(r)) = 2

\* the step in which request r runs the delete of its deferred cleanup
DeleteStepOf(r) == req[r].pc = "delete" /\ req'[r].pc = "close"

\* C22: the delete a terminating serving loop runs removes no entry but
\* its own: an entry that holds another connection (one registered later
\* under the same identity on the same endpoint) is still in the table
\* after the step.
C22_RemovesOnlyOwnEntry ==
    [][\A r \in Reqs :
          DeleteStepOf(r) =>
              \A e \in Endpoints : \A id \in DOMAIN ConnMap[e] :
                  ConnMap[e][id] # r =>
                      /\ id \in DOMAIN ConnMap'[e]
                      /\ ConnMap'[e][id] = ConnMap[e][id]]_vars

\* C23: no entry of a table holds a connection that its serving loop has
\* closed.
C23_NoClosedConnInTable == InSomeTable \cap closed = {}

\* C23 witness: a loop has removed and closed its connection, and the
\* identity is registered again on the same endpoint by a later handshake
\* that is serving
C23_Witness ==
    \E r1, r2 \in Reqs :
        /\ r1 \in closed
        /\ req[r2].pc = "read"
        /\ req[r2].ep = req[r1].ep
        /\ req[r2].id = req[r1].id
        /\ GetConn(req[r2].ep, req[r2].id) = r2

\* C24: under fair scheduling, a serving connection whose peer has closed
\* is eventually removed from the table and closed, whatever the loop was
\* doing when the peer closed, a pending send on the channel included.
C24_ClosedPeerEventuallyCleaned ==
    \A r \in Reqs :
        (req[r].pc \in {"read", "push"} /\ req[r].peerClosed)
            ~> (r \in closed /\ r \notin InSomeTable)

(* =========================== the sends' claims ========================== *)

Written == {"ok", "WriteError"}

\* the entries of a send's log that failed
Failed(c) == SelectSeq(c.log, LAMBDA l : l.out # "ok")

\* the connections a set of tables holds
ConnsOf(tables, eps) == UNION {{tables[e][id] : id \in DOMAIN tables[e]} : e \in eps}

RegisteredEndpoints == {EndpointMap[k] : k \in DOMAIN EndpointMap}

\* the connections a send wrote to, and how often it wrote to conn
WrittenConns(c) == {c.log[k].conn : k \in {j \in 1..Len(c.log) : c.log[j].out \in Written}}
WritesTo(c, conn) == Cardinality({k \in 1..Len(c.log) : c.log[k].conn = conn})

\* C1 (as claimed): a Message send returns "connection not found" exactly
\* when the path is registered and the id is absent from that endpoint's
\* table, and "endpoint not found" exactly when the path is not registered.
C1_MessageSendErrors ==
    \A s \in Senders :
        (snd[s].pc = "done" /\ snd[s].mode = "Message") =>
            /\ snd[s].result.type = "ConnNotFoundError" <=>
                  (snd[s].log[1].ep # Nil /\ snd[s].log[1].conn = NoConn)
            /\ snd[s].result.type = "EndpointNotFoundError" <=>
                  snd[s].log[1].ep = Nil

\* C2: a BroadcastMessage with an empty path returns nil when none of its
\* writes failed and otherwise a BroadcastMessageError with an empty path
\* and one error per failed write; and when no table changed while it ran,
\* it wrote exactly once to every connection of every registered endpoint
\* and to nothing else.
C2_BroadcastAllCoversAndCounts ==
    \A s \in Senders :
        (/\ snd[s].pc = "done"
         /\ snd[s].mode = "BroadcastMessage"
         /\ snd[s].arg.EndpointPath = "") =>
            /\ \A k \in 1..Len(snd[s].log) : snd[s].log[k].out \in Written
            /\ IF Len(Failed(snd[s])) = 0
               THEN snd[s].result.type = "nil"
               ELSE /\ snd[s].result.type = "BroadcastMessageError"
                    /\ snd[s].result.EndpointPath = ""
                    /\ Len(snd[s].result.Errors) = Len(Failed(snd[s]))
            /\ snd[s].epoch = TableWrites =>
                  /\ WrittenConns(snd[s]) = ConnsOf(ConnMap, RegisteredEndpoints)
                  /\ \A conn \in WrittenConns(snd[s]) : WritesTo(snd[s], conn) = 1

\* C2 witness: a broadcast to all endpoints has ended with one failed and
\* one successful write on connections of two endpoints, no table having
\* changed meanwhile
C2_Witness ==
    \E s \in Senders :
        /\ snd[s].pc = "done"
        /\ snd[s].mode = "BroadcastMessage"
        /\ snd[s].arg.EndpointPath = ""
        /\ snd[s].epoch = TableWrites
        /\ Len(snd[s].log) = 2
        /\ snd[s].log[1].ep # snd[s].log[2].ep
        /\ Len(Failed(snd[s])) = 1

\* C3 (as claimed): an EndpointMessage without ids writes exactly once to
\* each connection that was in the endpoint's table when the send was
\* called, whatever handshakes and removals run meanwhile; with ids it
\* deals with each listed id in turn, writing to those present and adding
\* a ConnNotFoundError with the endpoint's path and the id for each absent
\* one.
C3_EndpointMessageTargets ==
    \A s \in Senders :
        (snd[s].pc = "done" /\ snd[s].mode = "EndpointMessage") =>
            IF Len(snd[s].arg.ConnIds) = 0
            THEN /\ WrittenConns(snd[s]) = ConnsOf(snd[s].snap, {snd[s].ep})
                 /\ \A conn \in WrittenConns(snd[s]) : WritesTo(snd[s], conn) = 1
            ELSE /\ Len(snd[s].log) = Len(snd[s].arg.ConnIds)
                 /\ \A k \in 1..Len(snd[s].log) :
                       /\ snd[s].log[k].id = snd[s].arg.ConnIds[k]
                       /\ snd[s].log[k].ep = snd[s].ep
                 /\ Len(snd[s].errs) = Len(Failed(snd[s]))
                 /\ \A k \in 1..Len(snd[s].errs) :
                       Failed(snd[s])[k].out = "ConnNotFound" =>
                          snd[s].errs[k] = ConnNotFoundError(EndpointPathOf(snd[s].ep),
                                                            Failed(snd[s])[k].id)

\* C4: a MultiMessage send without entries returns nil; otherwise it sends
\* every non-nil entry once, in batch order and whatever the earlier entries
\* did, skips the nil entries, returns a MultiMessageError exactly when an
\* entry failed, and the errors of that aggregate are those of the failed
\* entries in batch order.
C4_MultiMessageAggregates ==
    \A s \in Senders :
        (snd[s].pc = "done" /\ snd[s].mode = "MultiMessage") =>
            LET batch  == snd[s].arg
                log    == snd[s].log
                nonNil == {k \in 1..Len(batch) : batch[k] # NilMessage}
                failed == Failed(snd[s])
            IN  /\ Len(batch) = 0 => snd[s].result.type = "nil"
                /\ Len(log) = Cardinality(nonNil)
                /\ {log[k].i : k \in 1..Len(log)} = nonNil
                /\ \A k \in 1..(Len(log) - 1) : log[k].i < log[k + 1].i
                /\ \A k \in 1..Len(log) : log[k].id = batch[log[k].i].ConnId
                /\ snd[s].result.type = "MultiMessageError" <=> Len(failed) > 0
                /\ Len(failed) = 0 => snd[s].result.type = "nil"
                /\ Len(failed) > 0 =>
                      /\ Len(snd[s].result.Errors) = Len(failed)
                      /\ \A k \in 1..Len(failed) :
                            snd[s].result.Errors[k] =
                               IF failed[k].out = "ConnNotFound"
                               THEN ConnNotFoundError(batch[failed[k].i].EndpointPath,
                                                      batch[failed[k].i].ConnId)
                               ELSE WriteError

\* C4 witness: a batch of a failing entry followed by an entry that was
\* written has ended
C4_Witness ==
    \E s \in Senders :
        /\ snd[s].pc = "done"
        /\ snd[s].mode = "MultiMessage"
        /\ Len(snd[s].log) = 2
        /\ snd[s].log[1].out # "ok"
        /\ snd[s].log[2].out = "ok"

\* the kind the caller gave the message that a log entry belongs to
GivenKind(c, l) ==
    IF c.mode = "MultiMessage" THEN c.arg[l.i].MessageType ELSE c.arg.MessageType

\* C5: in every mode, each frame a send writes has the default kind when
\* the caller left the kind zero and the caller's kind otherwise; no frame
\* is written with kind zero.
C5_KindNormalised ==
    \A s \in Senders : \A k \in 1..Len(snd[s].log) :
        LET l == snd[s].log[k]
        IN  l.out \in Written =>
               /\ l.kind # 0
               /\ l.kind = IF GivenKind(snd[s], l) = 0 THEN DefaultMessageType
                           ELSE GivenKind(snd[s], l)

\* C5 witness: a batch has written an entry whose kind was zero and an
\* entry whose kind was set
C5_Witness ==
    \E s \in Senders :
        /\ snd[s].mode = "MultiMessage"
        /\ Len(snd[s].log) = 2
        /\ snd[s].log[1].out \in Written /\ snd[s].log[2].out \in Written
        /\ GivenKind(snd[s], snd[s].log[1]) = 0
        /\ GivenKind(snd[s], snd[s].log[2]) # 0

\* the step in which sender s appends an entry to its log
LogStepOf(s) == Len(snd'[s].log) = Len(snd[s].log) + 1

\* the entry appended
NewEntry(s) == snd'[s].log[Len(snd'[s].log)]

\* C25: at most one write is in progress on a connection: no two senders
\* are in conn.WriteMessage on the same connection at once.  A sender is
\* in the call from the moment it holds the connection and has the write
\* as its next statement until the write returns.
C25_OneWriteAtATime ==
    \A s1, s2 \in DOMAIN snd :
        (s1 # s2 /\ snd[s1].pc = "write" /\ snd[s2].pc = "write")
            => snd[s1].conn # snd[s2].conn

\* C26 as claimed: a send never calls WriteMessage on a connection that its
\* serving loop has closed.
C26_AsClaimed ==
    [][\A s \in DOMAIN snd :
          (LogStepOf(s) /\ NewEntry(s).out \in Written) =>
              snd[s].conn \notin closed]_vars

\* C26: a send that holds a connection writes it whether or not the
\* serving loop has removed and closed it since the lookup; the write on a
\* closed connection fails and is reported as a write error, a write is
\* reported as done only on a connection that is open, and 'connection not
\* found' is reported only for a lookup that found no entry and without
\* any write.
C26_WriteAfterCloseFails ==
    [][\A s \in DOMAIN snd :
          LogStepOf(s) =>
              /\ NewEntry(s).out = "ok" =>
                    /\ snd[s].pc = "write"
                    /\ NewEntry(s).conn = snd[s].conn
                    /\ snd[s].conn \notin closed
              /\ (snd[s].pc = "write" /\ snd[s].conn \in closed) =>
                    /\ NewEntry(s).out = "WriteError"
                    /\ NewEntry(s).conn = snd[s].conn
              /\ NewEntry(s).out = "ConnNotFound" =>
                    /\ snd[s].pc # "write"
                    /\ NewEntry(s).conn = NoConn]_vars

\* C26 witness: a send has reported a failed write for a connection that
\* is closed and in no table, while the other sender holds the same
\* connection and is about to write it
C26_Witness ==
    \E s1, s2 \in DOMAIN snd :
        /\ s1 # s2
        /\ snd[s1].pc = "done" /\ snd[s1].mode = "Message"
        /\ snd[s1].log # <<>> /\ snd[s1].log[1].out = "WriteError"
        /\ snd[s1].log[1].conn \in closed \ InSomeTable
        /\ snd[s2].pc = "write"
        /\ snd[s2].conn = snd[s1].log[1].conn

(* ========================== the Manager's claims ======================== *)

\* the paths a caller may name
Paths == {"/chat", "/news", "/missing"}

\* the endpoint most recently passed to AddEndpoint for a path (history)
LastAdded(path) ==
    LET calls == {k \in 1..Len(added) : EndpointPathOf(added[k]) = path}
    IN  IF calls = {} THEN Nil
        ELSE added[CHOOSE k \in calls : \A k2 \in calls : k2 <= k]

\* the path the target of a log entry was addressed by
AddressedPath(c, l) ==
    IF c.mode = "MultiMessage" THEN c.arg[l.i].EndpointPath ELSE c.arg.EndpointPath

\* C11: GetEndpoint(path) is the endpoint most recently passed to
\* AddEndpoint for that path, and nil when there was none; and every write
\* of a Message, MultiMessage or BroadcastMessage send that was called
\* after the latest AddEndpoint goes to a connection of an endpoint that is
\* registered now, which for a send addressed to a path is the endpoint
\* most recently registered under it, never one it replaced.
C11_ReplacementWins ==
    /\ \A path \in Paths : GetEndpoint(path) = LastAdded(path)
    /\ \A s \in Senders :
          (/\ snd[s].mode \in {"Message", "MultiMessage", "BroadcastMessage"}
           /\ snd[s].adds = Len(added)) =>
              \A k \in 1..Len(snd[s].log) :
                  LET l == snd[s].log[k]
                  IN  l.out \in Written =>
                         /\ req[l.conn].ep \in RegisteredEndpoints
                         /\ AddressedPath(snd[s], l) # "" =>
                               req[l.conn].ep = LastAdded(AddressedPath(snd[s], l))

\* C11 witness: C has replaced A under "/chat", each of them holds a
\* connection under "u1", and a broadcast to every endpoint that was called
\* after the replacement has ended with its one write, to the connection
\* of C
C11_Witness ==
    \E s \in Senders :
        /\ added = <<"A", "C">>
        /\ GetConn("A", "u1") # NoConn
        /\ GetConn("C", "u1") # NoConn
        /\ snd[s].pc = "done"
        /\ snd[s].mode = "BroadcastMessage"
        /\ snd[s].arg.EndpointPath = ""
        /\ snd[s].adds = Len(added)
        /\ Len(snd[s].log) = 1
        /\ snd[s].log[1].conn = GetConn("C", "u1")
        /\ snd[s].log[1].out = "ok"

\* C12 (as claimed): GetConnCount and GetMsgChan of a path that is not
\* registered never crash, and each returns its sentinel.
C12_UnknownPathAccessors ==
    \A s \in Senders :
        (/\ snd[s].mode \in {"GetConnCount", "GetMsgChan"}
         /\ LastAdded(snd[s].arg.EndpointPath) = Nil) =>
            /\ snd[s].pc # "panicked"
            /\ snd[s].pc = "done" =>
                  \/ snd[s].result = IntResult(0)
                  \/ snd[s].result = ChanResult(Nil)

\* C13: a BroadcastMessage with a non-empty path that is not registered
\* returns an EndpointNotFoundError with that path and writes to no
\* connection.
C13_BroadcastUnknownPath ==
    \A s \in Senders :
        (/\ snd[s].pc = "done"
         /\ snd[s].mode = "BroadcastMessage"
         /\ snd[s].arg.EndpointPath # ""
         /\ snd[s].arg.EndpointPath \notin DOMAIN EndpointMap) =>
            /\ snd[s].result = EndpointNotFoundError(snd[s].arg.EndpointPath)
            /\ snd[s].log = <<>>
            /\ snd[s].errs = <<>>

\* C13 witness: a broadcast to "/missing" has ended while the endpoints of
\* "/chat" and "/news" each hold a connection
C13_Witness ==
    \E s \in Senders :
        /\ snd[s].pc = "done"
        /\ snd[s].mode = "BroadcastMessage"
        /\ snd[s].arg.EndpointPath = "/missing"
        /\ DOMAIN ConnMap["A"] # {}
        /\ DOMAIN ConnMap["B"] # {}

\* C14: a BroadcastMessage with a registered path writes only to
\* connections of that path's endpoint; it returns nil when no write failed
\* (so also when it wrote nothing) and otherwise a BroadcastMessageError
\* with that path and one error per failed write; and when no table changed
\* while it ran, it wrote exactly once to every connection in that
\* endpoint's table.
C14_BroadcastToPath ==
    \A s \in Senders :
        (/\ snd[s].pc = "done"
         /\ snd[s].mode = "BroadcastMessage"
         /\ snd[s].arg.EndpointPath \in DOMAIN EndpointMap) =>
            LET e == EndpointMap[snd[s].arg.EndpointPath]
            IN  /\ \A k \in 1..Len(snd[s].log) :
                      /\ snd[s].log[k].out \in Written
                      /\ snd[s].log[k].ep = e
                      /\ req[snd[s].log[k].conn].ep = e
                /\ IF Len(Failed(snd[s])) = 0
                   THEN snd[s].result = NoError
                   ELSE /\ snd[s].result.type = "BroadcastMessageError"
                        /\ snd[s].result.EndpointPath = snd[s].arg.EndpointPath
                        /\ Len(snd[s].result.Errors) = Len(Failed(snd[s]))
                /\ snd[s].epoch = TableWrites =>
                      /\ WrittenConns(snd[s]) = ConnsOf(ConnMap, {e})
                      /\ \A conn \in WrittenConns(snd[s]) : WritesTo(snd[s], conn) = 1

\* C14 witness: a broadcast to "/chat" has ended, no table having changed
\* meanwhile, with a successful write to "u1" and a failed one to "u2"
C14_Witness ==
    \E s \in Senders :
        /\ snd[s].pc = "done"
        /\ snd[s].mode = "BroadcastMessage"
        /\ snd[s].arg.EndpointPath = "/chat"
        /\ snd[s].epoch = TableWrites
        /\ \E k1, k2 \in 1..Len(snd[s].log) :
              /\ snd[s].log[k1].id = "u1" /\ snd[s].log[k1].out = "ok"
              /\ snd[s].log[k2].id = "u2" /\ snd[s].log[k2].out = "WriteError"

\* C15: no step of a send, in any mode and whatever its outcome, changes
\* the connection table of an endpoint or the endpoint table of the
\* manager.
C15_SendsChangeNoTable ==
    [][(\E s \in Senders : snd'[s] # snd[s]) =>
          /\ ConnMap' = ConnMap
          /\ EndpointMap' = EndpointMap]_vars

\* C15 witness: a batch has ended whose first entry was not found and
\* whose second entry failed on its write, and the connection of that
\* write is still in its table
C15_Witness ==
    \E s \in Senders :
        /\ snd[s].pc = "done"
        /\ snd[s].mode = "MultiMessage"
        /\ Len(snd[s].log) = 2
        /\ snd[s].log[1].out = "ConnNotFound"
        /\ snd[s].log[2].out = "WriteError"
        /\ GetConn(snd[s].log[2].ep, snd[s].log[2].id) = snd[s].log[2].conn

\* C16 (as claimed): the accesses of an endpoint's connection table
\* exclude each other: when a goroutine is at a statement that writes the
\* table, no other goroutine is at a statement that reads or writes it.
C16_TableAccessExclusive ==
    \A e \in Endpoints :
        TableWriters(e) # {} =>
            Cardinality(TableWriters(e)) + Cardinality(TableReaders(e)) = 1

\* C17: a connection is held by the table of one endpoint only, under the
\* identity it registered with; a Message writes only to a connection that
\* registered under the message's id with the endpoint of the message's
\* path, and an EndpointMessage only to connections that registered with
\* the endpoint it was sent on, under the listed id where ids are listed.
C17_IdentityScopedToEndpoint ==
    /\ \A e \in Endpoints : \A id \in DOMAIN ConnMap[e] :
          req[ConnMap[e][id]].ep = e /\ req[ConnMap[e][id]].id = id
    /\ \A s \in Senders : \A k \in 1..Len(snd[s].log) :
          LET c == snd[s]
              l == c.log[k]
          IN  l.out \in Written =>
                 /\ c.mode \in {"Message", "MultiMessage"} =>
                       /\ req[l.conn].ep = GetEndpoint(AddressedPath(c, l))
                       /\ req[l.conn].id =
                             (IF c.mode = "Message" THEN c.arg.ConnId
                              ELSE c.arg[l.i].ConnId)
                 /\ c.mode = "EndpointMessage" =>
                       /\ req[l.conn].ep = c.ep
                       /\ Len(c.arg.ConnIds) > 0 => req[l.conn].id = c.arg.ConnIds[l.i]

\* C17 witness: the endpoints of "/chat" and "/news" each hold a
\* connection under "u1", and a Message to ("/chat", "u1") has been
\* written to the one of "/chat"
C17_Witness ==
    \E s \in Senders :
        /\ GetConn("A", "u1") # NoConn
        /\ GetConn("B", "u1") # NoConn
        /\ snd[s].pc = "done"
        /\ snd[s].mode = "Message"
        /\ snd[s].arg.EndpointPath = "/chat"
        /\ snd[s].arg.ConnId = "u1"
        /\ Len(snd[s].log) = 1
        /\ snd[s].log[1].out = "ok"
        /\ snd[s].log[1].conn = GetConn("A", "u1")

\* the errors of the aggregate a send returned
ErrorsOf(result) ==
    IF result.type \in {"MultiMessageError", "EndpointMessageError",
                        "BroadcastMessageError"}
    THEN result.Errors ELSE <<>>

\* the targets (path, id) the errors of a result name
NamedTargets(result) ==
    {<<ErrorsOf(result)[k].EndpointPath, ErrorsOf(result)[k].ConnId>> :
        k \in {j \in 1..Len(ErrorsOf(result)) :
                  ErrorsOf(result)[j].type = "ConnNotFoundError"}}

\* the targets (path, id) whose delivery failed in a send
FailedTargets(c) ==
    {<<IF c.mode = "MultiMessage" THEN c.arg[Failed(c)[k].i].EndpointPath
       ELSE EndpointPathOf(Failed(c)[k].ep),
       Failed(c)[k].id>> : k \in 1..Len(Failed(c))}

\* C18 (as claimed): the targets that the aggregate returned by an
\* EndpointMessage, MultiMessage or BroadcastMessage send names are exactly
\* the targets whose delivery failed, not-found and write failures alike.
C18_AggregateNamesFailedTargets ==
    \A s \in Senders :
        (/\ snd[s].pc = "done"
         /\ snd[s].mode \in {"EndpointMessage", "MultiMessage", "BroadcastMessage"}
         /\ snd[s].result.type # "EndpointNotFoundError") =>
            NamedTargets(snd[s].result) = FailedTargets(snd[s])

\* C21: no interleaving of the registry's operations brings the process
\* down: no goroutine panics on a nil pointer and the runtime never throws
\* on a concurrent access of a connection table.
C21_NothingProcessFatal == ~ProcessFatal

(* =========================== the stores' claims ========================= *)

AllBuckets(tree, bucketList) ==
    \A k \in 1..Len(bucketList) : IsBucket(tree, SubSeq(bucketList, 1, k))

\* C20, for the calls made so far: fn is called once at most; with an
\* empty list either function returns ErrEmptyBuckets without calling fn;
\* NestedViewTransaction calls fn exactly when every bucket of the list
\* existed when it began, and returns nil when it did not call it;
\* NestedUpdateTransaction calls fn only with every bucket of the list in
\* place.
C20_Calls ==
    \A c \in BoltCallers :
        LET x == btx[c]
        IN  x.op # "none" =>
               /\ x.called <= 1
               /\ x.bucketList = <<>> =>
                     /\ x.pc = "done" /\ x.called = 0
                     /\ x.result = ErrEmptyBuckets
               /\ (x.op = "view" /\ x.bucketList # <<>>) =>
                     /\ (x.pc = "fn" \/ x.called = 1) <=> AllBuckets(x.begun, x.bucketList)
                     /\ (x.pc = "done" /\ x.called = 0) => x.result = NoError
               /\ (x.op = "update" /\ x.pc = "fn") => AllBuckets(x.tree, x.bucketList)
               /\ (x.op = "update" /\ x.called = 1) =>
                     /\ x.bucketList # <<>>
                     /\ AllBuckets(x.atCall, x.bucketList)

\* C20: NestedViewTransaction never creates a bucket (no step of it
\* changes the tree) and calls the callback exactly when every bucket of
\* the list exists, returning nil otherwise; NestedUpdateTransaction has
\* every bucket of the list in place when it calls the callback; both
\* return ErrEmptyBuckets without calling it for an empty list.
C20_NestedBuckets ==
    /\ []C20_Calls
    /\ [][\A c \in BoltCallers :
             (btx'[c] # btx[c] /\ btx'[c].op = "view") => buckets' = buckets]_vars

\* C20 witness: a view of <<"a", "a">> has ended without calling fn, no
\* bucket existing, and then an update of <<"a", "a">> has created both
\* buckets and its callback has committed
C20_Witness ==
    \E c1, c2 \in BoltCallers :
        /\ btx[c1].pc = "done" /\ btx[c1].op = "view"
        /\ btx[c1].bucketList = <<"a", "a">>
        /\ btx[c1].called = 0
        /\ btx[c2].pc = "done" /\ btx[c2].op = "update"
        /\ btx[c2].bucketList = <<"a", "a">>
        /\ btx[c2].begun = EmptyMap
        /\ btx[c2].called = 1
        /\ btx[c2].result = NoError
        /\ AllBuckets(buckets, <<"a", "a">>)

\* the callers whose call with a callback has returned an id and no error
Allocated == {t \in Callers : txn[t].pc = "done" /\ txn[t].fn # "nil"
                                 /\ txn[t].result.err = NoError}

Unsignalled == {i \in DOMAIN programs : programs[i].pc # "exited"}

TimedOut(h) ==
    handlers[h].pc = "done" /\ handlers[h].result = Failure("Program stop timeout")

\* C28: whatever restart and stop requests arrive, overlap or time out, at
\* most one instance of the program has not yet signalled on cleanupDone,
\* and an instance is started only when every earlier one has.
C28_OneInstanceAtATime ==
    /\ [](Cardinality(Unsignalled) <= 1)
    /\ [][Len(programs') > Len(programs) =>
            /\ Len(programs') = Len(programs) + 1
            /\ Unsignalled = {}]_vars

\* C28 witness: a restart has timed out while the instance was still
\* running, a later request has displaced that instance, and a further
\* handler waits for the new one
C28_Witness ==
    /\ Len(programs) = 2
    /\ programs[1].pc = "exited" /\ programs[2].pc = "running"
    /\ \E h1, h2 \in CtlRequests :
          /\ h1 # h2
          /\ TimedOut(h1) /\ handlers[h1].kind = "restart"
          /\ handlers[h2].pc \in {"select", "stop_select"}

\* the step in which the handler of h stores its environment
SetEnvStepOf(h) == handlers[h].pc = "setenv" /\ handlers'[h].pc = "start"

\* the step in which the handler of h answers
AnswerStepOf(h) == handlers[h].pc # "done" /\ handlers'[h].pc = "done"

\* C29: a restart that succeeds stores, and hands to the new instance, an
\* environment that has every name of the request with the request's
\* value and every other name of the environment stored before with the
\* value it had; a restart that fails leaves the stored environment as it
\* is and starts no instance.
C29_RestartMergesEnv ==
    [][\A h \in CtlRequests :
          /\ SetEnvStepOf(h) =>
                LET request == ObjectOf(handlers[h].body.members)
                IN  /\ DOMAIN env' = (DOMAIN request) \cup (DOMAIN env)
                    /\ \A k \in DOMAIN request : env'[k] = request[k]
                    /\ \A k \in (DOMAIN env) \ (DOMAIN request) : env'[k] = env[k]
          /\ (AnswerStepOf(h) /\ handlers'[h].kind = "restart") =>
                IF handlers'[h].result.Success
                THEN /\ Len(programs') = Len(programs) + 1
                     /\ programs'[Len(programs')].env = env
                     /\ env' = env
                ELSE /\ programs' = programs
                     /\ env' = env
                     /\ handlers[h].pc \in {"idle", "select"}]_vars

====
